---- MODULE Spec2Model ----
(***************************************************************************)
(* Model of the ops_dashboard consolidation pipeline:                      *)
(*   normalization.py  - parse_mixed_date, normalize_lot_id,               *)
(*                       truthy_issue_flag                                 *)
(*   consolidation.py  - row preparation, latest-shipping selection,       *)
(*                       conflict detection, consolidate_logs              *)
(*                                                                         *)
(* Python strings are sequences of one-character strings.  A scalar cell   *)
(* value is a record [k, s]: k is the kind ("None", "NaN", "NaT", "str",   *)
(* "ts", "bool") and s the payload (the characters of a str, the           *)
(* <<year, month, day, seconds>> of a Timestamp).                          *)
(***************************************************************************)
EXTENDS Integers, Sequences, FiniteSets, TLC

VARIABLES
    pc,              \* "ready" before the call under study, "done" after it
    parts,           \* how the text of this run's lot id or date was put together
    raw_lot_id,      \* argument of normalize_lot_id
    normalized,      \* LotNormalization returned by normalize_lot_id
    date_value,      \* argument of parse_mixed_date
    parsed_date,     \* outcome of parse_mixed_date
    production_df,   \* production input table of consolidate_logs
    shipping_df,     \* shipping input table of consolidate_logs
    result,          \* outcome of consolidate_logs
    anchor_date,     \* anchor date of the report
    config,          \* AppConfig of the ReportingService
    week,            \* (start, end) returned by week_bounds
    summary,         \* WeeklySummaryResult returned by weekly_summary
    drill            \* the drill-down asked for and the rows it returned

vars == <<pc, parts, raw_lot_id, normalized, date_value, parsed_date,
          production_df, shipping_df, result, anchor_date, config, week, summary,
          drill>>

report_vars == <<anchor_date, config, week, summary, drill>>

----------------------------------------------------------------------------
(* Scalar values *)

None == [k |-> "None", s |-> <<>>]
NaN == [k |-> "NaN", s |-> <<>>]
NaT == [k |-> "NaT", s |-> <<>>]
StrV(chars) == [k |-> "str", s |-> chars]
Timestamp(y, m, d, secs) == [k |-> "ts", s |-> <<y, m, d, secs>>]

\* pd.isna / pd.notna of a scalar
isna(v) == v.k \in {"None", "NaN", "NaT"}
notna(v) == ~isna(v)

\* `value is None or (isinstance(value, float) and pd.isna(value))`
IsNoneOrFloatNaN(v) == v.k \in {"None", "NaN"}

----------------------------------------------------------------------------
(* Python string primitives used by normalize_lot_id *)

Whitespace == {" "}
DigitChars == {"0", "1", "2", "3", "4", "5", "6", "7", "8", "9"}

LowerLetters == <<"a", "b", "c", "d", "e", "f", "g", "h", "i", "j", "k", "l", "m",
                  "n", "o", "p", "q", "r", "s", "t", "u", "v", "w", "x", "y", "z">>
UpperLetters == <<"A", "B", "C", "D", "E", "F", "G", "H", "I", "J", "K", "L", "M",
                  "N", "O", "P", "Q", "R", "S", "T", "U", "V", "W", "X", "Y", "Z">>

\* str.upper / str.lower of one character
UpperChar(c) ==
    IF \E i \in 1..26 : LowerLetters[i] = c
    THEN UpperLetters[CHOOSE i \in 1..26 : LowerLetters[i] = c]
    ELSE c

LowerChar(c) ==
    IF \E i \in 1..26 : UpperLetters[i] = c
    THEN LowerLetters[CHOOSE i \in 1..26 : UpperLetters[i] = c]
    ELSE c

upper(text) == [i \in 1..Len(text) |-> UpperChar(text[i])]
lower(text) == [i \in 1..Len(text) |-> LowerChar(text[i])]

RECURSIVE lstrip(_)
lstrip(text) ==
    IF text # <<>> /\ Head(text) \in Whitespace THEN lstrip(Tail(text)) ELSE text

RECURSIVE rstrip(_)
rstrip(text) ==
    IF text # <<>> /\ text[Len(text)] \in Whitespace
    THEN rstrip(SubSeq(text, 1, Len(text) - 1))
    ELSE text

\* str.strip()
strip(text) == rstrip(lstrip(text))

\* str.replace(old, new): non-overlapping occurrences, left to right
RECURSIVE replace(_, _, _)
replace(text, old, new) ==
    IF Len(text) < Len(old) THEN text
    ELSE IF SubSeq(text, 1, Len(old)) = old
         THEN new \o replace(SubSeq(text, Len(old) + 1, Len(text)), old, new)
         ELSE <<Head(text)>> \o replace(Tail(text), old, new)

\* re.sub(r"[\s\-_]+", "", text)
RemoveSeparators(text) ==
    SelectSeq(text, LAMBDA c : c \notin (Whitespace \cup {"-", "_"}))

AllDigits(text) == \A i \in 1..Len(text) : text[i] \in DigitChars

----------------------------------------------------------------------------
(* Messages.  A message is a str made of tokens <<text, argument>>: the     *)
(* fixed text of an f-string and the value it formats with !r.  The empty   *)
(* str has no token and + is the concatenation of the tokens.               *)

Message(text, arg) == StrV(<< <<text, arg>> >>)
Concat(a, b) == StrV(a.s \o b.s)
Contains(v, text) == v.k = "str" /\ \E i \in 1..Len(v.s) : v.s[i][1] = text

\* Series.fillna("") of one cell
fillna_empty(v) == IF isna(v) THEN StrV(<<>>) ELSE v

----------------------------------------------------------------------------
(* normalization.py: normalize_lot_id *)

DateDigits == 8
SeqDigits == 3
LOT == <<"L", "O", "T">>
L0T == <<"L", "0", "T">>

\* a result that always reports ok
LotNormalization_always_ok(canonical, status, reason) ==
    [canonical_lot_id |-> canonical, status |-> "ok", reason |-> reason]

LotNormalization(canonical, status, reason) ==
    [canonical_lot_id |-> canonical, status |-> status, reason |-> reason]

\* re.sub(r"^LOT(\d{8})(\d{3})$", r"LOT-\1-\2", compact)
Structure(compact) ==
    IF /\ Len(compact) = 3 + DateDigits + SeqDigits
       /\ SubSeq(compact, 1, 3) = LOT
       /\ AllDigits(SubSeq(compact, 4, Len(compact)))
    THEN LOT \o <<"-">> \o SubSeq(compact, 4, 3 + DateDigits)
             \o <<"-">> \o SubSeq(compact, 4 + DateDigits, Len(compact))
    ELSE compact

\* the optional separator [-_ ]? of LOT_PATTERN at position p
OptSep(text, p) ==
    IF p <= Len(text) /\ text[p] \in {"-", "_", " "} THEN p + 1 ELSE p

NoMatch == [matched |-> FALSE, group1 |-> <<>>, group2 |-> <<>>]

\* LOT_PATTERN = LOT[-_ ]?(\d{8})[-_ ]?(\d{3}) matched from position i;
\* the groups are returned when it matches there
LotPatternAt(text, i) ==
    LET Groups(d0, s0) ==
            IF /\ i + 2 <= Len(text)
               /\ SubSeq(text, i, i + 2) = LOT
               /\ d0 + DateDigits - 1 <= Len(text)
               /\ AllDigits(SubSeq(text, d0, d0 + DateDigits - 1))
               /\ s0 + SeqDigits - 1 <= Len(text)
               /\ AllDigits(SubSeq(text, s0, s0 + SeqDigits - 1))
            THEN [matched |-> TRUE,
                  group1 |-> SubSeq(text, d0, d0 + DateDigits - 1),
                  group2 |-> SubSeq(text, s0, s0 + SeqDigits - 1)]
            ELSE NoMatch
        AfterPrefix(d0) == Groups(d0, OptSep(text, d0 + DateDigits))
    IN  AfterPrefix(OptSep(text, i + 3))

\* LOT_PATTERN.search: the leftmost position where the pattern matches
LotPatternSearch(text) ==
    LET Leftmost(hits) ==
            IF hits = {} THEN NoMatch
            ELSE LotPatternAt(text, CHOOSE i \in hits : \A j \in hits : i <= j)
    IN  Leftmost({i \in 1..Len(text) : LotPatternAt(text, i).matched})

\* a typo correction that was never applied
CorrectTypo_skipped(raw_text) == raw_text

\* raw_text.replace("L0T", "LOT")
CorrectTypo(raw_text) == replace(raw_text, L0T, LOT)

normalize_lot_id(raw) ==
    LET Decide(raw_text, match) ==
            IF raw_text = <<>>
            THEN LotNormalization(None, "needs_review", Message("Lot ID is blank", None))
            ELSE IF ~match.matched
            THEN LotNormalization(None, "needs_review",
                     Message("Lot ID does not match expected pattern", raw))
            ELSE LotNormalization(
                     StrV(LOT \o <<"-">> \o match.group1 \o <<"-">> \o match.group2),
                     "ok", None)
        Normalize(raw_text) ==
            Decide(raw_text,
                   LotPatternSearch(Structure(RemoveSeparators(CorrectTypo(raw_text)))))
    IN  IF IsNoneOrFloatNaN(raw)
        THEN LotNormalization(None, "needs_review", Message("Lot ID is empty", None))
        ELSE Normalize(upper(strip(raw.s)))


----------------------------------------------------------------------------
(* normalization.py: parse_mixed_date.  pd.to_datetime is modelled on the   *)
(* values a spreadsheet cell holds: missing values, Timestamps, and text in *)
(* the YYYY-MM-DD, MM/DD/YYYY and YYYY/MM/DD forms or in none of them.      *)

DigitVal(c) ==
    CASE c = "0" -> 0 [] c = "1" -> 1 [] c = "2" -> 2 [] c = "3" -> 3
      [] c = "4" -> 4 [] c = "5" -> 5 [] c = "6" -> 6 [] c = "7" -> 7
      [] c = "8" -> 8 [] c = "9" -> 9

RECURSIVE Num(_)
Num(text) ==
    IF text = <<>> THEN 0
    ELSE 10 * Num(SubSeq(text, 1, Len(text) - 1)) + DigitVal(text[Len(text)])

IsLeap(y) == (y % 4 = 0 /\ y % 100 # 0) \/ y % 400 = 0

DaysInMonth(y, m) ==
    IF m = 2 THEN (IF IsLeap(y) THEN 29 ELSE 28)
    ELSE IF m \in {4, 6, 9, 11} THEN 30 ELSE 31

ValidDate(y, m, d) == m \in 1..12 /\ d \in 1..DaysInMonth(y, m)

\* text of the shape DDDDxDDxDD (year first) or DDxDDxDDDD (month first)
YearFirstShape(text, sep) ==
    /\ Len(text) = 10
    /\ text[5] = sep /\ text[8] = sep
    /\ AllDigits(SubSeq(text, 1, 4) \o SubSeq(text, 6, 7) \o SubSeq(text, 9, 10))

MonthFirstShape(text, sep) ==
    /\ Len(text) = 10
    /\ text[3] = sep /\ text[6] = sep
    /\ AllDigits(SubSeq(text, 1, 2) \o SubSeq(text, 4, 5) \o SubSeq(text, 7, 10))

\* the date a text denotes, NaT when it denotes none
ParseDateText(text) ==
    LET Date(y, m, d) == IF ValidDate(y, m, d) THEN Timestamp(y, m, d, 0) ELSE NaT
    IN  IF YearFirstShape(text, "-") \/ YearFirstShape(text, "/")
        THEN Date(Num(SubSeq(text, 1, 4)), Num(SubSeq(text, 6, 7)), Num(SubSeq(text, 9, 10)))
        ELSE IF MonthFirstShape(text, "/")
        THEN Date(Num(SubSeq(text, 7, 10)), Num(SubSeq(text, 1, 2)), Num(SubSeq(text, 4, 5)))
        ELSE NaT

\* the errors= argument a careless call would pass
errors_mode_raise == "raise"

\* errors="coerce" of the pd.to_datetime call
errors_mode == "coerce"

\* pd.to_datetime(value, errors=errors, utc=False): the value it returns and
\* whether it raised instead
to_datetime(value, errors) ==
    LET Convert(converted) ==
            IF value.k = "str" /\ value.s # <<>> /\ converted = NaT /\ errors = "raise"
            THEN [value |-> NaT, raised |-> TRUE]
            ELSE [value |-> converted, raised |-> FALSE]
    IN  Convert(CASE value.k = "ts" -> value
                  [] value.k = "str" -> ParseDateText(value.s)
                  [] OTHER -> NaT)

\* Timestamp.normalize(): midnight of the same day
normalize(ts) == Timestamp(ts.s[1], ts.s[2], ts.s[3], 0)

\* a normalize() that keeps the time of day
normalize_skipped(ts) == ts

\* parsed.normalize() of the success return
normalize_parsed(ts) == normalize(ts)

\* parse_mixed_date: (parsed, reason), or raised
parse_mixed_date(value) ==
    LET Outcome(conv) ==
            IF conv.raised
            THEN [parsed |-> NaT, reason |-> None, raised |-> TRUE]
            ELSE IF isna(conv.value)
            THEN [parsed |-> NaT, reason |-> Message("Unparseable date value", value),
                  raised |-> FALSE]
            ELSE [parsed |-> normalize_parsed(conv.value), reason |-> None,
                  raised |-> FALSE]
    IN  IF IsNoneOrFloatNaN(value)
        THEN [parsed |-> NaT, reason |-> Message("Date is empty", None), raised |-> FALSE]
        ELSE Outcome(to_datetime(value, errors_mode))

----------------------------------------------------------------------------
(* normalization.py: truthy_issue_flag *)

truthy_issue_flag(value) ==
    IF value.k = "bool" THEN value.s = <<TRUE>>
    ELSE IF IsNoneOrFloatNaN(value) THEN FALSE
    ELSE lower(strip(value.s)) \in
            {<<"y", "e", "s">>, <<"y">>, <<"t", "r", "u", "e">>, <<"t">>, <<"1">>}

----------------------------------------------------------------------------
(* Ordering of str and Timestamp values, as sorted() and sort_values use it *)

AsciiOrder == <<" ", "-", "/">> \o <<"0", "1", "2", "3", "4", "5", "6", "7", "8", "9">>
                  \o UpperLetters \o <<"_">> \o LowerLetters

Ord(c) == CHOOSE i \in 1..Len(AsciiOrder) : AsciiOrder[i] = c

RECURSIVE TextLess(_, _)
TextLess(a, b) ==
    IF b = <<>> THEN FALSE
    ELSE IF a = <<>> THEN TRUE
    ELSE IF Head(a) = Head(b) THEN TextLess(Tail(a), Tail(b))
    ELSE Ord(Head(a)) < Ord(Head(b))

TsLess(a, b) ==
    \E i \in 1..4 : a.s[i] < b.s[i] /\ \A j \in 1..(i - 1) : a.s[j] = b.s[j]

\* sorted(values) of a set of str values
RECURSIVE sorted(_)
sorted(values) ==
    LET From(least) == <<least>> \o sorted(values \ {least})
    IN  IF values = {} THEN <<>>
        ELSE From(CHOOSE v \in values : \A w \in values : ~TextLess(w.s, v.s))

----------------------------------------------------------------------------
(* consolidation.py: row preparation.  A DataFrame is [columns, rows]: the  *)
(* column names and the rows, each a record over the columns.               *)

\* _coalesce_column: the first candidate column the table has, as a Series
_coalesce_column(df, candidates, default) ==
    LET Column(present) ==
            IF present = {}
            THEN [i \in 1..Len(df.rows) |-> default]
            ELSE [i \in 1..Len(df.rows) |->
                    df.rows[i][candidates[CHOOSE j \in present : \A h \in present : j <= h]]]
    IN  Column({j \in 1..Len(candidates) : candidates[j] \in df.columns})

AmbiguousMessage ==
    Message("Ambiguous lot match: provided normalized_lot_id conflicts with raw lot normalization",
            None)

\* needs_review that forgets the lot status
needs_review_date_only(date_error_reason, lot_normalization_status) ==
    notna(date_error_reason)

\* date_error_reason.notna() | (lot_normalization_status != "ok")
needs_review_of(date_error_reason, lot_normalization_status) ==
    notna(date_error_reason) \/ lot_normalization_status # "ok"

\* date_error_reason.fillna("") + lot_error_reason.fillna("")
review_reason_of(date_error_reason, lot_error_reason) ==
    Concat(fillna_empty(date_error_reason), fillna_empty(lot_error_reason))

\* normalize_lot_id(x).canonical_lot_id if pd.notna(x) else None
provided_canonical(x) ==
    IF notna(x) THEN normalize_lot_id(x).canonical_lot_id ELSE None

\* provided.notna() & canonical_lot_id.notna() & provided.ne(canonical_lot_id)
mismatch_of(provided, canonical_lot_id) ==
    notna(provided) /\ notna(canonical_lot_id) /\ provided # canonical_lot_id

\* an ambiguity message appended to the earlier reason
reason_on_mismatch_appended(review_reason) == Concat(review_reason, AmbiguousMessage)

\* out.loc[mismatch, "review_reason"] = "Ambiguous lot match: ..."
reason_on_mismatch(review_reason) == AmbiguousMessage

\* a date column that keeps what the cell held when parsing failed
date_column_raw_on_failure(value, outcome) ==
    IF outcome.reason = None THEN outcome.parsed ELSE value

\* out["production_date"] = parsed_dates / out["ship_date"] = parsed_dates
date_column(value, outcome) == outcome.parsed

\* the columns both _prepare_production and _prepare_shipping derive for a row
\* from its raw date, raw lot id and provided normalized lot id
QualityColumns(date_raw, raw_lot, provided_raw) ==
    LET Columns(outcome, norm, mismatch, base_reason) ==
            [parsed |-> date_column(date_raw, outcome),
             date_error_reason |-> outcome.reason,
             canonical_lot_id |-> norm.canonical_lot_id,
             lot_normalization_status |-> norm.status,
             lot_error_reason |-> norm.reason,
             needs_review |-> needs_review_of(outcome.reason, norm.status) \/ mismatch,
             review_reason |-> IF mismatch THEN reason_on_mismatch(base_reason)
                               ELSE base_reason]
        Derive(outcome, norm) ==
            Columns(outcome, norm,
                    mismatch_of(provided_canonical(provided_raw), norm.canonical_lot_id),
                    review_reason_of(outcome.reason, norm.reason))
    IN  Derive(parse_mixed_date(date_raw), normalize_lot_id(raw_lot))

\* whether parse_mixed_date raised on a cell of the Series
AnyDateRaised(series) ==
    \E i \in 1..Len(series) : parse_mixed_date(series[i]).raised

ProductionDateColumns == <<"production_date", "run_date", "date">>
ShippingDateColumns == <<"ship_date", "shipping_date", "date">>
LotColumns == <<"raw_lot_id", "lot_id", "lot", "lot_number">>

_prepare_production(df) ==
    LET Row(raw, q, raw_lot, line, issue, flag, date_raw, provided) ==
            [source_file |-> raw.source_file,
             source_sheet |-> raw.source_sheet,
             source_row |-> raw.source_row,
             raw_lot_id |-> raw_lot,
             production_line |-> line,
             primary_issue |-> issue,
             line_issue |-> truthy_issue_flag(flag),
             production_date_raw |-> date_raw,
             provided_normalized_lot_id |-> provided,
             production_date |-> q.parsed,
             date_error_reason |-> q.date_error_reason,
             canonical_lot_id |-> q.canonical_lot_id,
             lot_normalization_status |-> q.lot_normalization_status,
             lot_error_reason |-> q.lot_error_reason,
             needs_review |-> q.needs_review,
             review_reason |-> q.review_reason,
             dataset |-> "production"]
        Prepared(raw, raw_lot, line, issue, flag, date_raw, provided) ==
            Row(raw, QualityColumns(date_raw, raw_lot, provided),
                raw_lot, line, issue, flag, date_raw, provided)
    IN  [i \in 1..Len(df.rows) |->
            Prepared(df.rows[i],
                _coalesce_column(df, LotColumns, None)[i],
                _coalesce_column(df, <<"production_line", "line_name", "line">>, None)[i],
                _coalesce_column(df, <<"primary_issue", "issue_category", "defect_category">>,
                                 None)[i],
                _coalesce_column(df, <<"line_issue", "line_issue_flag", "issue">>, None)[i],
                _coalesce_column(df, ProductionDateColumns, None)[i],
                _coalesce_column(df, <<"normalized_lot_id">>, None)[i])]

OnHold == StrV(<<"O", "n", " ", "H", "o", "l", "d">>)
Shipped == StrV(<<"S", "h", "i", "p", "p", "e", "d">>)
Partial == StrV(<<"P", "a", "r", "t", "i", "a", "l">>)

_prepare_shipping(df) ==
    LET Row(raw, q, raw_lot, status, date_raw, provided) ==
            [source_file |-> raw.source_file,
             source_sheet |-> raw.source_sheet,
             source_row |-> raw.source_row,
             raw_lot_id |-> raw_lot,
             ship_status |-> IF isna(status) THEN OnHold ELSE status,
             ship_date_raw |-> date_raw,
             provided_normalized_lot_id |-> provided,
             ship_date |-> q.parsed,
             date_error_reason |-> q.date_error_reason,
             canonical_lot_id |-> q.canonical_lot_id,
             lot_normalization_status |-> q.lot_normalization_status,
             lot_error_reason |-> q.lot_error_reason,
             needs_review |-> q.needs_review,
             review_reason |-> q.review_reason,
             dataset |-> "shipping"]
        Prepared(raw, raw_lot, status, date_raw, provided) ==
            Row(raw, QualityColumns(date_raw, raw_lot, provided),
                raw_lot, status, date_raw, provided)
    IN  [i \in 1..Len(df.rows) |->
            Prepared(df.rows[i],
                _coalesce_column(df, LotColumns, None)[i],
                _coalesce_column(df, <<"ship_status", "shipping_status">>, None)[i],
                _coalesce_column(df, ShippingDateColumns, None)[i],
                _coalesce_column(df, <<"normalized_lot_id">>, None)[i])]

----------------------------------------------------------------------------
(* consolidation.py: latest shipping row per lot *)

\* order of sort_values(["canonical_lot_id", "ship_date"], ascending=[True, False]):
\* lots ascending, then dates descending with NaT last
ShipBefore(a, b) ==
    \/ TextLess(a.canonical_lot_id.s, b.canonical_lot_id.s)
    \/ /\ a.canonical_lot_id = b.canonical_lot_id
       /\ \/ notna(a.ship_date) /\ isna(b.ship_date)
          \/ notna(a.ship_date) /\ notna(b.ship_date) /\ TsLess(b.ship_date, a.ship_date)

\* the stable sort of sort_values: equal keys keep their original order
RECURSIVE sort_values(_)
sort_values(rows) ==
    LET Place(init, x, k) == SubSeq(init, 1, k) \o <<x>> \o SubSeq(init, k + 1, Len(init))
        Insert(init, x) ==
            Place(init, x, Cardinality({i \in 1..Len(init) : ~ShipBefore(x, init[i])}))
    IN  IF rows = <<>> THEN <<>>
        ELSE Insert(sort_values(SubSeq(rows, 1, Len(rows) - 1)), rows[Len(rows)])

\* drop_duplicates(subset=["canonical_lot_id"], keep="first")
drop_duplicates(rows) ==
    LET RECURSIVE Pick(_)
        Pick(i) ==
            IF i > Len(rows) THEN <<>>
            ELSE (IF \A j \in 1..(i - 1) : rows[j].canonical_lot_id # rows[i].canonical_lot_id
                  THEN <<rows[i]>> ELSE <<>>) \o Pick(i + 1)
    IN  Pick(1)

\* a selection that keeps every shipping row of a lot
_latest_shipping_by_lot_all_rows(shipping) ==
    sort_values(SelectSeq(shipping, LAMBDA r : notna(r.canonical_lot_id)))

\* a selection that keeps the first row of each lot in the original order
_latest_shipping_by_lot_unsorted(shipping) ==
    drop_duplicates(SelectSeq(shipping, LAMBDA r : notna(r.canonical_lot_id)))

_latest_shipping_by_lot(shipping) ==
    drop_duplicates(sort_values(SelectSeq(shipping, LAMBDA r : notna(r.canonical_lot_id))))

----------------------------------------------------------------------------
(* consolidation.py: conflict detection *)

Rows(table) == {table[i] : i \in 1..Len(table)}

\* rows[["source_file", "source_sheet", "source_row"]].drop_duplicates().to_dict("records")
Sources(rows) ==
    LET ref(r) == [source_file |-> r.source_file, source_sheet |-> r.source_sheet,
                   source_row |-> r.source_row]
        RECURSIVE Pick(_)
        Pick(i) == IF i > Len(rows) THEN <<>>
                   ELSE (IF \A j \in 1..(i - 1) : ref(rows[j]) # ref(rows[i])
                         THEN <<ref(rows[i])>> ELSE <<>>) \o Pick(i + 1)
    IN  Pick(1)

\* the lots with a canonical id on either side
ConflictLotIds(production, shipping) ==
    {r.canonical_lot_id : r \in {x \in Rows(production) \cup Rows(shipping) :
                                    notna(x.canonical_lot_id)}}

ProdLines(production, lot_id) ==
    {r.production_line : r \in {x \in Rows(production) :
        x.canonical_lot_id = lot_id /\ notna(x.production_line)}}

ShipStatuses(shipping, lot_id) ==
    {r.ship_status : r \in {x \in Rows(shipping) :
        x.canonical_lot_id = lot_id /\ notna(x.ship_status)}}

IsConflicted(production, shipping, lot_id) ==
    \/ Cardinality(ProdLines(production, lot_id)) > 1
    \/ Cardinality(ShipStatuses(shipping, lot_id)) > 1

\* prod_rows / ship_rows is the column-less pd.DataFrame() when the lot has no
\* row on that side, and selecting the source columns of it raises KeyError
DetectConflictsRaises(production, shipping) ==
    \E lot_id \in ConflictLotIds(production, shipping) :
        /\ IsConflicted(production, shipping, lot_id)
        /\ \/ \A r \in Rows(production) : r.canonical_lot_id # lot_id
           \/ \A r \in Rows(shipping) : r.canonical_lot_id # lot_id

\* the conflict records, in the order of sorted(lot_ids)
_detect_conflicts(production, shipping) ==
    LET record(lot_id) ==
            [canonical_lot_id |-> lot_id,
             conflict_production_lines |-> sorted(ProdLines(production, lot_id)),
             conflict_ship_statuses |-> sorted(ShipStatuses(shipping, lot_id)),
             production_sources |->
                 Sources(SelectSeq(production, LAMBDA r : r.canonical_lot_id = lot_id)),
             shipping_sources |->
                 Sources(SelectSeq(shipping, LAMBDA r : r.canonical_lot_id = lot_id))]
        RECURSIVE Records(_, _)
        Records(lot_ids, i) ==
            IF i > Len(lot_ids) THEN <<>>
            ELSE (IF IsConflicted(production, shipping, lot_ids[i])
                  THEN <<record(lot_ids[i])>> ELSE <<>>) \o Records(lot_ids, i + 1)
    IN  Records(sorted(ConflictLotIds(production, shipping)), 1)

----------------------------------------------------------------------------
(* consolidation.py: consolidate_logs *)

\* the shipping columns the merge brings in, renamed
ShippingColumns(s) ==
    [ship_status |-> s.ship_status,
     ship_date |-> s.ship_date,
     shipping_source_file |-> s.source_file,
     shipping_source_sheet |-> s.source_sheet,
     shipping_source_row |-> s.source_row,
     shipping_raw_lot_id |-> s.raw_lot_id]

\* what a left merge fills in for a production row without a partner
NoShippingColumns ==
    [ship_status |-> NaN,
     ship_date |-> NaT,
     shipping_source_file |-> NaN,
     shipping_source_sheet |-> NaN,
     shipping_source_row |-> NaN,
     shipping_raw_lot_id |-> NaN]

\* production.merge(shipping_latest[...], on="canonical_lot_id", how="left"):
\* the left order is kept, one output row per matching right row
merge(production, shipping_latest) ==
    LET Pair(p, partners) ==
            IF partners = <<>> THEN <<p @@ NoShippingColumns>>
            ELSE [j \in 1..Len(partners) |-> p @@ ShippingColumns(partners[j])]
        joined(p) ==
            Pair(p, SelectSeq(shipping_latest,
                        LAMBDA s : s.canonical_lot_id = p.canonical_lot_id))
        RECURSIVE Join(_)
        Join(i) == IF i > Len(production) THEN <<>>
                   ELSE joined(production[i]) \o Join(i + 1)
    IN  Join(1)

NoMatchMessage == Message("No matching shipping lot found", None)

\* a needs_review that the join leaves as preparation set it
needs_review_after_join_unchanged(needs_review, shipping_match_status) == needs_review

\* consolidated["needs_review"] | (consolidated["shipping_match_status"] == "unmatched")
needs_review_after_join(needs_review, shipping_match_status) ==
    needs_review \/ shipping_match_status = "unmatched"

\* a default that replaces whatever reason the row had
review_reason_after_join_overridden(review_reason) == NoMatchMessage

\* review_reason.where(review_reason.astype(str).str.len() > 0, "No matching ...")
review_reason_after_join(review_reason) ==
    IF Len(review_reason.s) > 0 THEN review_reason ELSE NoMatchMessage

\* a flag that counts every joined status as shipped
is_problematic_but_shipped_any_status(line_issue, ship_status) ==
    line_issue /\ notna(ship_status)

\* consolidated["line_issue"] & consolidated["ship_status"].isin(["Shipped", "Partial"])
is_problematic_but_shipped(line_issue, ship_status) ==
    line_issue /\ ship_status \in {Shipped, Partial}

\* shipping_match_status, needs_review, review_reason and
\* is_problematic_but_shipped of one merged row
Finalize(row) ==
    LET Set(shipping_match_status) ==
            [row EXCEPT
                !.needs_review =
                    needs_review_after_join(row.needs_review, shipping_match_status),
                !.review_reason = review_reason_after_join(row.review_reason)]
            @@ [shipping_match_status |-> shipping_match_status,
                is_problematic_but_shipped |->
                    is_problematic_but_shipped(row.line_issue, row.ship_status)]
    IN  Set(IF notna(row.ship_status) THEN "matched" ELSE "unmatched")

\* an alias map fed from the production table alone
Aliases_production_only(production, shipping, lot) ==
    sorted({r.raw_lot_id : r \in {x \in Rows(production) :
                notna(x.canonical_lot_id) /\ x.canonical_lot_id = lot}})

\* alias_lookup.get(lot, set()), sorted
Aliases(production, shipping, lot) ==
    sorted({r.raw_lot_id : r \in {x \in Rows(production) \cup Rows(shipping) :
                notna(x.canonical_lot_id) /\ x.canonical_lot_id = lot}})

Aborted(error) ==
    [error |-> error, include_flagged |-> FALSE, production |-> <<>>, shipping |-> <<>>,
     consolidated |-> <<>>, flagged_rows |-> <<>>, conflict_rows |-> <<>>]

\* has_conflict, the partition into flagged_rows and consolidated, and the
\* alias evidence, which only the consolidated output receives
Partition(production, shipping, consolidated, conflict_rows, include_flagged) ==
    LET WithConflict(conflict_lots) ==
            [i \in 1..Len(consolidated) |->
                consolidated[i]
                @@ [has_conflict |-> consolidated[i].canonical_lot_id \in conflict_lots]]
        WithAliases(kept) ==
            [i \in 1..Len(kept) |->
                kept[i] @@ [raw_lot_aliases |->
                    Aliases(production, shipping, kept[i].canonical_lot_id)]]
        Split(marked) ==
            [error |-> "",
             include_flagged |-> include_flagged,
             production |-> production,
             shipping |-> shipping,
             consolidated |->
                 WithAliases(IF include_flagged THEN marked
                             ELSE SelectSeq(marked, LAMBDA r : ~r.needs_review)),
             flagged_rows |-> SelectSeq(marked, LAMBDA r : r.needs_review),
             conflict_rows |-> conflict_rows]
    IN  Split(WithConflict({conflict_rows[i].canonical_lot_id : i \in 1..Len(conflict_rows)}))

\* the join of the prepared tables, finalized row by row
Joined(production, shipping) ==
    LET Each(merged) == [i \in 1..Len(merged) |-> Finalize(merged[i])]
    IN  Each(merge(production, _latest_shipping_by_lot(shipping)))

consolidate_logs(production_df_, shipping_df_, include_flagged) ==
    LET Run(production, shipping) ==
            IF DetectConflictsRaises(production, shipping)
            THEN Aborted("KeyError")
            ELSE Partition(production, shipping, Joined(production, shipping),
                           _detect_conflicts(production, shipping), include_flagged)
    IN  IF \/ AnyDateRaised(_coalesce_column(production_df_, ProductionDateColumns, None))
           \/ AnyDateRaised(_coalesce_column(shipping_df_, ShippingDateColumns, None))
        THEN Aborted("ValueError")
        ELSE Run(_prepare_production(production_df_), _prepare_shipping(shipping_df_))

----------------------------------------------------------------------------
(* reporting.py: calendar arithmetic of pd.Timestamp and pd.Timedelta *)

\* days of the year before the first of month m
RECURSIVE DaysBeforeMonth(_, _)
DaysBeforeMonth(y, m) ==
    IF m = 1 THEN 0 ELSE DaysBeforeMonth(y, m - 1) + DaysInMonth(y, m - 1)

\* days before the first of January of year y, counted from 0001-01-01
DaysBeforeYear(y) ==
    (y - 1) * 365 + ((y - 1) \div 4) - ((y - 1) \div 100) + ((y - 1) \div 400)

\* Timestamp.toordinal(): 0001-01-01 is day 1
toordinal(ts) == DaysBeforeYear(ts.s[1]) + DaysBeforeMonth(ts.s[1], ts.s[2]) + ts.s[3]

\* the day with a given ordinal, at a given time of day
fromordinal(n, secs) ==
    LET InMonth(y, m) == Timestamp(y, m, n - DaysBeforeYear(y) - DaysBeforeMonth(y, m), secs)
        InYear(y) ==
            InMonth(y, CHOOSE m \in 1..12 :
                          /\ DaysBeforeYear(y) + DaysBeforeMonth(y, m) < n
                          /\ n <= DaysBeforeYear(y) + DaysBeforeMonth(y, m) + DaysInMonth(y, m))
    IN  InYear(CHOOSE y \in (n \div 366)..(n \div 365 + 1) :
                  DaysBeforeYear(y) < n /\ n <= DaysBeforeYear(y + 1))

\* ts + pd.Timedelta(days=days)
AddDays(ts, days) == fromordinal(toordinal(ts) + days, ts.s[4])

\* a weekday() that counts from Sunday
weekday_from_sunday(ts) == toordinal(ts) % 7

\* Timestamp.weekday(): Monday is 0
weekday(ts) == (toordinal(ts) + 6) % 7

\* a <= b of two Timestamps
TsLessEq(a, b) == ~TsLess(b, a)

----------------------------------------------------------------------------
(* reporting.py: week_bounds and ReportingService.weekly_summary *)

week_bounds(anchor) ==
    LET Bounds(start) == [start |-> start, end |-> AddDays(start, 6)]
        From(normalized_) == Bounds(AddDays(normalized_, 0 - weekday(normalized_)))
    IN  From(normalize(anchor))

\* a previous window that always lies one week back
previous_window_one_week_back(bounds, comparison_period_days) ==
    [start |-> AddDays(bounds.start, 0 - 7), end |-> AddDays(bounds.end, 0 - 7)]

\* prev_start, prev_end
previous_window(bounds, comparison_period_days) ==
    [start |-> AddDays(bounds.start, 0 - comparison_period_days),
     end |-> AddDays(bounds.end, 0 - comparison_period_days)]

\* a window test that leaves out the last day
in_window_end_excluded(production_date, bounds) ==
    /\ production_date.k = "ts"
    /\ TsLessEq(bounds.start, production_date)
    /\ TsLess(production_date, bounds.end)

\* (production_date >= start) & (production_date <= end); NaT compares false
in_window(production_date, bounds) ==
    /\ production_date.k = "ts"
    /\ TsLessEq(bounds.start, production_date)
    /\ TsLessEq(production_date, bounds.end)

\* the rows of a table whose production_date lies in the window
Window(table, bounds) == SelectSeq(table, LAMBDA r : in_window(r.production_date, bounds))

\* ascending order of a column of str values, absent values last
ValueLess(a, b) == notna(a) /\ (isna(b) \/ TextLess(a.s, b.s))

\* a ranking that groups as groupby does by default, without a group for the
\* rows that have no production_line
Ranking_named_lines_only(current) ==
    LET Group(line) ==
            [production_line |-> line,
             issue_count |->
                 Cardinality({i \in 1..Len(current) :
                     current[i].production_line = line /\ current[i].line_issue}),
             total_rows |->
                 Cardinality({i \in 1..Len(current) : current[i].production_line = line}),
             unique_lots |->
                 Cardinality({current[i].canonical_lot_id :
                     i \in {j \in 1..Len(current) :
                               /\ current[j].production_line = line
                               /\ notna(current[j].canonical_lot_id)}})]
        Before(a, b) ==
            \/ a.issue_count > b.issue_count
            \/ /\ a.issue_count = b.issue_count
               /\ \/ a.total_rows > b.total_rows
                  \/ /\ a.total_rows = b.total_rows
                     /\ ValueLess(a.production_line, b.production_line)
        Sorted(groups) ==
            [i \in 1..Cardinality(groups) |->
                CHOOSE x \in groups : Cardinality({y \in groups : Before(y, x)}) = i - 1]
    IN  Sorted({Group(current[i].production_line) :
                   i \in {j \in 1..Len(current) : notna(current[j].production_line)}})

\* groupby("production_line", dropna=False).agg(...).reset_index().sort_values(...)
Ranking(current) ==
    LET Group(line) ==
            [production_line |-> line,
             issue_count |->
                 Cardinality({i \in 1..Len(current) :
                     current[i].production_line = line /\ current[i].line_issue}),
             total_rows |->
                 Cardinality({i \in 1..Len(current) : current[i].production_line = line}),
             unique_lots |->
                 Cardinality({current[i].canonical_lot_id :
                     i \in {j \in 1..Len(current) :
                               /\ current[j].production_line = line
                               /\ notna(current[j].canonical_lot_id)}})]
        Before(a, b) ==
            \/ a.issue_count > b.issue_count
            \/ /\ a.issue_count = b.issue_count
               /\ \/ a.total_rows > b.total_rows
                  \/ /\ a.total_rows = b.total_rows
                     /\ ValueLess(a.production_line, b.production_line)
        Sorted(groups) ==
            [i \in 1..Cardinality(groups) |->
                CHOOSE x \in groups : Cardinality({y \in groups : Before(y, x)}) = i - 1]
    IN  Sorted({Group(current[i].production_line) : i \in 1..Len(current)})

Unspecified == StrV(<<"U", "n", "s", "p", "e", "c", "i", "f", "i", "e", "d">>)

\* primary_issue.fillna("Unspecified")
issue_category(r) == IF isna(r.primary_issue) THEN Unspecified ELSE r.primary_issue

\* rows[rows["line_issue"]] ... groupby("issue_category").size(), for one category
CategoryCount(rows, category) ==
    Cardinality({i \in 1..Len(rows) :
        rows[i].line_issue /\ issue_category(rows[i]) = category})

Categories(rows) ==
    {issue_category(rows[i]) : i \in {j \in 1..Len(rows) : rows[j].line_issue}}

\* a direction that reports no change as "up"
direction_flat_as_up(delta) == IF delta >= 0 THEN "up" ELSE "down"

\* "up" if d > 0 else ("down" if d < 0 else "flat")
direction(delta) == IF delta > 0 THEN "up" ELSE IF delta < 0 THEN "down" ELSE "flat"

\* pd.concat([cur_trend, prev_trend], axis=1).fillna(0).astype(int) with delta,
\* direction and the final sort_values
Trending(current, previous) ==
    LET Row(category, current_count, previous_count) ==
            [issue_category |-> category,
             current_count |-> current_count,
             previous_count |-> previous_count,
             delta |-> current_count - previous_count,
             direction |-> direction(current_count - previous_count)]
        Before(a, b) ==
            \/ a.current_count > b.current_count
            \/ /\ a.current_count = b.current_count
               /\ \/ a.delta > b.delta
                  \/ /\ a.delta = b.delta
                     /\ ValueLess(a.issue_category, b.issue_category)
        Sorted(rows) ==
            [i \in 1..Cardinality(rows) |->
                CHOOSE x \in rows : Cardinality({y \in rows : Before(y, x)}) = i - 1]
    IN  Sorted({Row(c, CategoryCount(current, c), CategoryCount(previous, c)) :
                   c \in Categories(current) \cup Categories(previous)})

AppConfig(comparison_period_days) ==
    [comparison_period_days |-> comparison_period_days,
     not_found_shipping_label |->
         StrV(<<"N", "o", "t", " ", "F", "o", "u", "n", "d", " ", "/", " ", "N", "o", "t", " ", "S", "h", "i", "p", "p", "e", "d", " ", "Y", "e", "t">>)]

weekly_summary(config_, consolidated, anchor) ==
    LET Summary(bounds, current, previous) ==
            [week_start |-> bounds.start,
             week_end |-> bounds.end,
             ranking |-> Ranking(current),
             trending |-> Trending(current, previous)]
        Over(bounds) ==
            Summary(bounds, Window(consolidated, bounds),
                    Window(consolidated,
                           previous_window(bounds, config_.comparison_period_days)))
    IN  Over(week_bounds(anchor))

----------------------------------------------------------------------------
(* reporting.py: drill_down_by_line and drill_down_by_category *)

\* a display status that leaves an absent ship_status absent
shipping_status_display_raw(ship_status, label) == ship_status

\* rows["ship_status"].fillna(self.config.not_found_shipping_label)
shipping_status_display(ship_status, label) ==
    IF isna(ship_status) THEN label ELSE ship_status

\* sort_values(["production_date", "canonical_lot_id"], ascending=[False, True]):
\* later dates first, then lots ascending with absent lots last
RECURSIVE DrillSort(_)
DrillSort(rows) ==
    LET DrillBefore(a, b) ==
            \/ TsLess(b.production_date, a.production_date)
            \/ /\ a.production_date = b.production_date
               /\ ValueLess(a.canonical_lot_id, b.canonical_lot_id)
        Place(init, x, k) == SubSeq(init, 1, k) \o <<x>> \o SubSeq(init, k + 1, Len(init))
        Insert(init, x) ==
            Place(init, x, Cardinality({i \in 1..Len(init) : ~DrillBefore(x, init[i])}))
    IN  IF rows = <<>> THEN <<>>
        ELSE Insert(DrillSort(SubSeq(rows, 1, Len(rows) - 1)), rows[Len(rows)])

drill_down_by_line(config_, consolidated, line_name, anchor) ==
    LET Show(rows) ==
            DrillSort([i \in 1..Len(rows) |->
                rows[i] @@
                [shipping_status_display |->
                     shipping_status_display(rows[i].ship_status,
                                             config_.not_found_shipping_label),
                 latest_ship_date_display |-> rows[i].ship_date]])
        In(bounds) ==
            Show(SelectSeq(consolidated, LAMBDA r :
                    /\ r.production_line = line_name
                    /\ in_window(r.production_date, bounds)
                    /\ r.line_issue))
    IN  In(week_bounds(anchor))

\* a drill-down window that never reaches back
drill_window_current_only(bounds, comparison_period_days, include_previous_period) == bounds

\* the window of the category drill-down: the current week, or from prev_start
\* to week_end
drill_window(bounds, comparison_period_days, include_previous_period) ==
    IF include_previous_period
    THEN [start |-> AddDays(bounds.start, 0 - comparison_period_days), end |-> bounds.end]
    ELSE bounds

\* a category filter that forgets line_issue
category_match_any_row(r, category) == issue_category(r) = category

\* frame["line_issue"] & frame["primary_issue"].fillna("Unspecified").eq(category)
category_match(r, category) == r.line_issue /\ issue_category(r) = category

drill_down_by_category(config_, consolidated, category, anchor, include_previous_period) ==
    LET Display(r, status) ==
            [r EXCEPT !.is_problematic_but_shipped = status \in {Shipped, Partial}]
            @@ [shipping_status_display |-> status]
        Show(rows) ==
            DrillSort([i \in 1..Len(rows) |->
                Display(rows[i],
                        shipping_status_display(rows[i].ship_status,
                                                config_.not_found_shipping_label))])
        In(bounds) ==
            Show(SelectSeq(consolidated, LAMBDA r :
                    /\ in_window(r.production_date, bounds)
                    /\ category_match(r, category)))
    IN  In(drill_window(week_bounds(anchor), config_.comparison_period_days,
                        include_previous_period))

----------------------------------------------------------------------------
(* Input tables.  The loader annotates every row with source_file,          *)
(* source_sheet and source_row = index + 2 (io.py).                         *)

ProductionColumns == {"production_date", "raw_lot_id", "normalized_lot_id",
                      "production_line", "line_issue", "primary_issue",
                      "source_file", "source_sheet", "source_row"}
ShippingColumns_ == {"shipping_date", "lot", "shipping_status", "normalized_lot_id",
                     "source_file", "source_sheet", "source_row"}

\* load_production_file / load_shipping_file: the source annotation
Annotate(cells, file, sheet) ==
    [i \in 1..Len(cells) |->
        cells[i] @@ [source_file |-> file, source_sheet |-> sheet, source_row |-> i + 1]]

ProductionTable(cells) ==
    [columns |-> ProductionColumns, rows |-> Annotate(cells, "prod.xlsx", "Production")]
ShippingTable(cells) ==
    [columns |-> ShippingColumns_, rows |-> Annotate(cells, "ship.xlsx", "Shipping")]

\* the production rows the runs are built from
ProductionPool == {
    [production_date |-> StrV(<<"2", "0", "2", "6", "-", "0", "2", "-", "0", "2">>), raw_lot_id |-> StrV(<<" ", "L", "O", "T", "_", "2", "0", "2", "6", "0", "2", "0", "2", "-", "0", "0", "1", " ">>), normalized_lot_id |-> None,
         production_line |-> StrV(<<"L", "i", "n", "e", " ", "1">>), line_issue |-> StrV(<<"Y", "e", "s">>), primary_issue |-> StrV(<<"T", "o", "o", "l", " ", "w", "e", "a", "r">>)],
    [production_date |-> StrV(<<"b", "a", "d", "-", "d", "a", "t", "e">>), raw_lot_id |-> StrV(<<"L", "O", "T", "2", "0", "2", "6", "0", "2", "0", "2", "0", "0", "1">>), normalized_lot_id |-> None,
         production_line |-> StrV(<<"L", "i", "n", "e", " ", "2">>), line_issue |-> StrV(<<"Y", "e", "s">>), primary_issue |-> None],
    [production_date |-> StrV(<<"0", "2", "/", "0", "3", "/", "2", "0", "2", "6">>), raw_lot_id |-> StrV(<<"B", "A", "D", "L", "O", "T">>), normalized_lot_id |-> None,
         production_line |-> StrV(<<"L", "i", "n", "e", " ", "1">>), line_issue |-> StrV(<<"N", "o">>), primary_issue |-> None],
    [production_date |-> None, raw_lot_id |-> None, normalized_lot_id |-> None,
         production_line |-> StrV(<<"L", "i", "n", "e", " ", "1">>), line_issue |-> StrV(<<"1">>), primary_issue |-> StrV(<<"T", "o", "o", "l", " ", "w", "e", "a", "r">>)],
    [production_date |-> StrV(<<"2", "0", "2", "6", "/", "0", "2", "/", "0", "4">>), raw_lot_id |-> StrV(<<"L", "0", "T", "-", "2", "0", "2", "6", "0", "2", "0", "3", "-", "0", "0", "1">>), normalized_lot_id |-> StrV(<<"L", "O", "T", "-", "2", "0", "2", "6", "0", "2", "0", "2", "-", "0", "0", "1">>),
         production_line |-> StrV(<<"L", "i", "n", "e", " ", "2">>), line_issue |-> StrV(<<"N", "o">>), primary_issue |-> None],
    [production_date |-> StrV(<<"b", "a", "d", "-", "d", "a", "t", "e">>), raw_lot_id |-> StrV(<<"l", "o", "t", " ", "2", "0", "2", "6", "0", "2", "0", "3", " ", "0", "0", "1">>), normalized_lot_id |-> StrV(<<"L", "O", "T", "-", "2", "0", "2", "6", "0", "2", "0", "2", "-", "0", "0", "1">>),
         production_line |-> StrV(<<"L", "i", "n", "e", " ", "2">>), line_issue |-> StrV(<<"Y", "e", "s">>), primary_issue |-> StrV(<<"T", "o", "o", "l", " ", "w", "e", "a", "r">>)],
    [production_date |-> Timestamp(2026, 2, 3, 3600), raw_lot_id |-> StrV(<<"L", "O", "T", "-", "2", "0", "2", "6", "0", "2", "0", "3", "-", "0", "0", "1">>), normalized_lot_id |-> StrV(<<"l", "o", "t", "_", "2", "0", "2", "6", "0", "2", "0", "3", "_", "0", "0", "1">>),
         production_line |-> StrV(<<"L", "i", "n", "e", " ", "2">>), line_issue |-> StrV(<<"Y", "e", "s">>), primary_issue |-> StrV(<<"T", "o", "o", "l", " ", "w", "e", "a", "r">>)],
    [production_date |-> StrV(<<>>), raw_lot_id |-> StrV(<<"L", "O", "T", "-", "2", "0", "2", "6", "0", "2", "0", "4", "-", "0", "0", "1">>), normalized_lot_id |-> StrV(<<"B", "A", "D", "L", "O", "T">>),
         production_line |-> StrV(<<"L", "i", "n", "e", " ", "1">>), line_issue |-> StrV(<<"N", "o">>), primary_issue |-> None]
}

\* the shipping rows the runs are built from
ShippingPool == {
    [shipping_date |-> StrV(<<"2", "0", "2", "6", "-", "0", "2", "-", "0", "5">>), lot |-> StrV(<<"L", "O", "T", "-", "2", "0", "2", "6", "0", "2", "0", "2", "-", "0", "0", "1">>), shipping_status |-> Shipped,
         normalized_lot_id |-> None],
    [shipping_date |-> StrV(<<"0", "2", "/", "0", "5", "/", "2", "0", "2", "6">>), lot |-> StrV(<<"L", "O", "T", "_", "2", "0", "2", "6", "0", "2", "0", "2", "_", "0", "0", "1">>), shipping_status |-> Partial,
         normalized_lot_id |-> None],
    [shipping_date |-> StrV(<<"2", "0", "2", "6", "/", "0", "2", "/", "0", "7">>), lot |-> StrV(<<"l", "o", "t", "2", "0", "2", "6", "0", "2", "0", "2", "0", "0", "1">>), shipping_status |-> None,
         normalized_lot_id |-> None],
    [shipping_date |-> StrV(<<"n", "o", "t", "-", "a", "-", "d", "a", "t", "e">>), lot |-> StrV(<<"L", "O", "T", "-", "2", "0", "2", "6", "0", "2", "0", "2", "-", "0", "0", "1">>), shipping_status |-> Shipped,
         normalized_lot_id |-> None],
    [shipping_date |-> StrV(<<"2", "0", "2", "6", "-", "0", "2", "-", "0", "6">>), lot |-> StrV(<<"L", "0", "T", "-", "2", "0", "2", "6", "0", "2", "0", "3", "-", "0", "0", "1">>), shipping_status |-> Shipped,
         normalized_lot_id |-> None],
    [shipping_date |-> StrV(<<"2", "0", "2", "6", "-", "0", "2", "-", "0", "6">>), lot |-> StrV(<<"B", "A", "D", "L", "O", "T">>), shipping_status |-> Shipped,
         normalized_lot_id |-> None],
    [shipping_date |-> StrV(<<"2", "0", "2", "6", "-", "0", "2", "-", "0", "8">>), lot |-> StrV(<<"L", "O", "T", "-", "2", "0", "2", "6", "0", "2", "0", "3", "-", "0", "0", "1">>), shipping_status |-> Partial,
         normalized_lot_id |-> StrV(<<"L", "O", "T", "-", "2", "0", "2", "6", "0", "2", "0", "2", "-", "0", "0", "1">>)]
}

\* most rows of the two input tables together
MaxRows == 3

SeqsUpTo(pool, n) == UNION {[1..k -> pool] : k \in 0..n}

NoResult == Aborted("not run")
NoLot == LotNormalization(None, "not run", None)
NoOutcome == [parsed |-> NaT, reason |-> None, raised |-> FALSE]
NoParts == [kind |-> "none"]
NoWeek == [start |-> NaT, end |-> NaT]
NoSummary == [week_start |-> NaT, week_end |-> NaT, ranking |-> <<>>, trending |-> <<>>]
DefaultConfig == AppConfig(7)
NoDrill == [view |-> "none", line_name |-> None, category |-> None,
            include_previous_period |-> FALSE, rows |-> <<>>]

\* no report has been asked for
ReportIdle ==
    /\ anchor_date = NaT
    /\ config = DefaultConfig
    /\ week = NoWeek
    /\ summary = NoSummary
    /\ drill = NoDrill

----------------------------------------------------------------------------
(* Spec: one call of consolidate_logs on a pair of input tables *)

Init ==
    /\ pc = "ready"
    /\ \E n \in 0..MaxRows :
         /\ production_df \in {ProductionTable(c) : c \in [1..n -> ProductionPool]}
         /\ shipping_df \in {ShippingTable(c) : c \in SeqsUpTo(ShippingPool, MaxRows - n)}
    /\ parts = NoParts
    /\ raw_lot_id = None
    /\ normalized = NoLot
    /\ date_value = None
    /\ parsed_date = NoOutcome
    /\ result = NoResult
    /\ ReportIdle

Consolidate(include_flagged) ==
    /\ pc = "ready"
    /\ result' = consolidate_logs(production_df, shipping_df, include_flagged)
    /\ pc' = "done"
    /\ UNCHANGED <<parts, raw_lot_id, normalized, date_value, parsed_date,
                   production_df, shipping_df>>
    /\ UNCHANGED report_vars

Next == \E include_flagged \in BOOLEAN : Consolidate(include_flagged)

Spec == Init /\ [][Next]_vars

----------------------------------------------------------------------------
(* SpecLot: one call of normalize_lot_id, and of consolidate_logs on the    *)
(* one-row tables that hold the same raw lot id.  The raw text is           *)
(* lead + prefix + sep1 + date + sep2 + seq + trail.                        *)

\* longest run of blanks around a lot id
MaxPad == 1

Pads == {[i \in 1..n |-> " "] : n \in 0..MaxPad}
Leads == Pads \cup {<<"X">>}
Trails == Pads \cup {<<"X">>}
GoodPrefixes == {LOT, L0T, <<"l", "o", "t">>, <<"L", "o", "T">>, <<"l", "0", "t">>, <<"L", "0", "t">>}
Prefixes == GoodPrefixes \cup {<<"L", "T">>, <<>>}
Separators == {<<>>, <<"-">>, <<"_">>, <<" ">>, <<"-", " ">>}
GoodDates == {<<"2", "0", "2", "6", "0", "1", "0", "1">>, <<"2", "0", "2", "6", "0", "2", "0", "2">>}
DateTexts == GoodDates \cup {<<"2", "0", "2", "6", "0", "1", "0">>, <<"2", "0", "2", "6", "0", "1", "0", "1", "1">>, <<>>}
GoodSeqs == {<<"0", "0", "1">>, <<"0", "1", "2">>}
SeqTexts == GoodSeqs \cup {<<"0", "1">>, <<"0", "0", "1", "2">>, <<>>}

LotParts ==
    [kind : {"str"}, lead : Leads, prefix : Prefixes, sep1 : Separators,
     date : DateTexts, sep2 : Separators, seq : SeqTexts, trail : Trails]

LotText(p) == p.lead \o p.prefix \o p.sep1 \o p.date \o p.sep2 \o p.seq \o p.trail

GoodDateCell == StrV(<<"2", "0", "2", "6", "-", "0", "2", "-", "0", "2">>)

LotProductionTable(lot) ==
    ProductionTable(<<[production_date |-> GoodDateCell, raw_lot_id |-> lot,
                       normalized_lot_id |-> None, production_line |-> StrV(<<"L", "i", "n", "e", " ", "1">>),
                       line_issue |-> StrV(<<"1">>), primary_issue |-> None]>>)

LotShippingTable(lot) ==
    ShippingTable(<<[shipping_date |-> GoodDateCell, lot |-> lot,
                     shipping_status |-> Shipped, normalized_lot_id |-> None]>>)

InitLot ==
    /\ pc = "ready"
    /\ \/ /\ parts \in LotParts
          /\ raw_lot_id = StrV(LotText(parts))
       \/ /\ parts \in {[kind |-> "None"], [kind |-> "NaN"]}
          /\ raw_lot_id = (IF parts.kind = "None" THEN None ELSE NaN)
    /\ production_df = LotProductionTable(raw_lot_id)
    /\ shipping_df = LotShippingTable(raw_lot_id)
    /\ normalized = NoLot
    /\ date_value = None
    /\ parsed_date = NoOutcome
    /\ result = NoResult
    /\ ReportIdle

NormalizeLot ==
    /\ pc = "ready"
    /\ normalized' = normalize_lot_id(raw_lot_id)
    /\ result' = consolidate_logs(production_df, shipping_df, TRUE)
    /\ pc' = "done"
    /\ UNCHANGED <<parts, raw_lot_id, date_value, parsed_date, production_df, shipping_df>>
    /\ UNCHANGED report_vars

NextLot == NormalizeLot

SpecLot == InitLot /\ [][NextLot]_vars

----------------------------------------------------------------------------
(* SpecDate: one call of parse_mixed_date, and of consolidate_logs on the   *)
(* one-row tables that hold the same date cell.                             *)

DigitChar(n) == CHOOSE c \in DigitChars : DigitVal(c) = n
Digits2(n) == <<DigitChar(n \div 10), DigitChar(n % 10)>>
Digits4(n) == Digits2(n \div 100) \o Digits2(n % 100)

\* strftime of a day in the three layouts
FormatDate(kind, y, m, d) ==
    CASE kind = "iso" -> Digits4(y) \o <<"-">> \o Digits2(m) \o <<"-">> \o Digits2(d)
      [] kind = "ymd" -> Digits4(y) \o <<"/">> \o Digits2(m) \o <<"/">> \o Digits2(d)
      [] kind = "us" -> Digits2(m) \o <<"/">> \o Digits2(d) \o <<"/">> \o Digits4(y)

Years == {2024, 2026}
Months == {1, 2, 4, 12}
Days == {1, 28, 29, 30, 31}
TimesOfDay == {0, 3600}
Garbage == {<<"b", "a", "d", "-", "d", "a", "t", "e">>, <<"n", "o", "t", "-", "a", "-", "d", "a", "t", "e">>, <<>>}

DateParts ==
    [kind : {"iso", "ymd", "us"}, y : Years, m : Months, d : Days, secs : {0},
     text : {<<>>}]
    \cup {p \in [kind : {"ts"}, y : Years, m : Months, d : Days, secs : TimesOfDay,
                 text : {<<>>}] : ValidDate(p.y, p.m, p.d)}
    \cup [kind : {"text"}, y : {0}, m : {0}, d : {0}, secs : {0}, text : Garbage]
    \cup [kind : {"None", "NaN", "NaT"}, y : {0}, m : {0}, d : {0}, secs : {0},
          text : {<<>>}]

DateCell(p) ==
    CASE p.kind \in {"iso", "ymd", "us"} -> StrV(FormatDate(p.kind, p.y, p.m, p.d))
      [] p.kind = "ts" -> Timestamp(p.y, p.m, p.d, p.secs)
      [] p.kind = "text" -> StrV(p.text)
      [] p.kind = "None" -> None
      [] p.kind = "NaN" -> NaN
      [] p.kind = "NaT" -> NaT

GoodLotCell == StrV(LOT \o <<"-">> \o <<"2", "0", "2", "6", "0", "2", "0", "2">> \o <<"-">> \o <<"0", "0", "1">>)

DateProductionTable(cell) ==
    ProductionTable(<<[production_date |-> cell, raw_lot_id |-> GoodLotCell,
                       normalized_lot_id |-> None, production_line |-> StrV(<<"L", "i", "n", "e", " ", "1">>),
                       line_issue |-> StrV(<<"1">>), primary_issue |-> None]>>)

DateShippingTable(cell) ==
    ShippingTable(<<[shipping_date |-> cell, lot |-> GoodLotCell,
                     shipping_status |-> Shipped, normalized_lot_id |-> None]>>)

InitDate ==
    /\ pc = "ready"
    /\ parts \in DateParts
    /\ date_value = DateCell(parts)
    /\ production_df = DateProductionTable(date_value)
    /\ shipping_df = DateShippingTable(date_value)
    /\ raw_lot_id = None
    /\ normalized = NoLot
    /\ parsed_date = NoOutcome
    /\ result = NoResult
    /\ ReportIdle

ParseDate ==
    /\ pc = "ready"
    /\ parsed_date' = parse_mixed_date(date_value)
    /\ result' = consolidate_logs(production_df, shipping_df, TRUE)
    /\ pc' = "done"
    /\ UNCHANGED <<parts, raw_lot_id, normalized, date_value, production_df, shipping_df>>
    /\ UNCHANGED report_vars

NextDate == ParseDate

SpecDate == InitDate /\ [][NextDate]_vars

----------------------------------------------------------------------------
(* SpecWeek: one call of week_bounds.                                       *)

AnchorYears == 2024..2026
AnchorTimes == {0, 3600}

WeekAnchors ==
    {Timestamp(c[1], c[2], c[3], c[4]) :
        c \in {x \in AnchorYears \X (1..12) \X (1..31) \X AnchorTimes :
                  ValidDate(x[1], x[2], x[3])}}

InitWeek ==
    /\ pc = "ready"
    /\ anchor_date \in WeekAnchors
    /\ config = DefaultConfig
    /\ week = NoWeek
    /\ summary = NoSummary
    /\ drill = NoDrill
    /\ parts = NoParts
    /\ raw_lot_id = None
    /\ normalized = NoLot
    /\ date_value = None
    /\ parsed_date = NoOutcome
    /\ production_df = ProductionTable(<<>>)
    /\ shipping_df = ShippingTable(<<>>)
    /\ result = NoResult

WeekBounds ==
    /\ pc = "ready"
    /\ week' = week_bounds(anchor_date)
    /\ pc' = "done"
    /\ UNCHANGED <<parts, raw_lot_id, normalized, date_value, parsed_date,
                   production_df, shipping_df, result, anchor_date, config, summary, drill>>

NextWeek == WeekBounds

SpecWeek == InitWeek /\ [][NextWeek]_vars

----------------------------------------------------------------------------
(* SpecReport: consolidate_logs on a production table whose dates lie       *)
(* around the report week, then weekly_summary of the consolidated output  *)
(* and one drill-down, by line or by category.                             *)

\* the inputs of the report runs: the production rows the tables are built
\* from, in file order, and a shipping table with one row for each lot but
\* the last
ReportTables ==
    LET LotA == StrV(<<"L", "O", "T", "-", "2", "0", "2", "6", "0", "2", "0", "2", "-", "0", "0", "1">>)
        LotB == StrV(<<"l", "o", "t", "_", "2", "0", "2", "6", "0", "2", "0", "2", "_", "0", "0", "2">>)
        LotC == StrV(<<"L", "O", "T", "-", "2", "0", "2", "6", "0", "1", "2", "7", "-", "0", "0", "1">>)
        LotD == StrV(<<"L", "0", "T", "-", "2", "0", "2", "6", "0", "2", "0", "1", "-", "0", "0", "1">>)
        LotE == StrV(<<"L", "O", "T", "-", "2", "0", "2", "6", "0", "2", "0", "2", "-", "0", "0", "3">>)
        Line1 == StrV(<<"L", "i", "n", "e", " ", "1">>)
        Line2 == StrV(<<"L", "i", "n", "e", " ", "2">>)
        Line3 == StrV(<<"L", "i", "n", "e", " ", "3">>)
        Yes == StrV(<<"Y", "e", "s">>)
        No == StrV(<<"N", "o">>)
        ToolWear == StrV(<<"T", "o", "o", "l", " ", "w", "e", "a", "r">>)
        SensorFault == StrV(<<"S", "e", "n", "s", "o", "r", " ", "f", "a", "u", "l", "t">>)
        ReportRow(date, line, lot, issue, category) ==
            [production_date |-> StrV(date), raw_lot_id |-> lot, normalized_lot_id |-> None,
             production_line |-> line, line_issue |-> issue, primary_issue |-> category]
    IN  [production |->
            <<
                ReportRow(<<"2", "0", "2", "6", "-", "0", "2", "-", "0", "4">>, Line2, LotA, No, SensorFault),
                ReportRow(<<"2", "0", "2", "6", "-", "0", "2", "-", "0", "8">>, Line1, LotB, Yes, None),
                ReportRow(<<"2", "0", "2", "6", "-", "0", "2", "-", "0", "2">>, Line2, LotE, Yes, SensorFault),
                ReportRow(<<"2", "0", "2", "6", "-", "0", "1", "-", "2", "7">>, Line1, LotC, Yes, ToolWear),
                ReportRow(<<"2", "0", "2", "6", "/", "0", "2", "/", "0", "1">>, Line3, LotD, Yes, SensorFault),
                ReportRow(<<"2", "0", "2", "6", "-", "0", "1", "-", "2", "0">>, Line1, LotC, Yes, None),
                ReportRow(<<"b", "a", "d", "-", "d", "a", "t", "e">>, Line1, LotB, Yes, ToolWear),
                ReportRow(<<"2", "0", "2", "6", "-", "0", "2", "-", "0", "9">>, Line3, LotD, Yes, ToolWear),
                ReportRow(<<"0", "2", "/", "0", "2", "/", "2", "0", "2", "6">>, Line2, LotA, Yes, ToolWear),
                ReportRow(<<"2", "0", "2", "6", "-", "0", "2", "-", "0", "8">>, None, StrV(<<"B", "A", "D", "L", "O", "T">>), Yes, None) >>,
         shipping |->
            ShippingTable(<<
                    [shipping_date |-> StrV(<<"2", "0", "2", "6", "-", "0", "2", "-", "0", "5">>), lot |-> LotA, shipping_status |-> Shipped,
                     normalized_lot_id |-> None],
                    [shipping_date |-> StrV(<<"2", "0", "2", "6", "-", "0", "2", "-", "0", "9">>), lot |-> LotB, shipping_status |-> Partial,
                     normalized_lot_id |-> None],
                    [shipping_date |-> StrV(<<"2", "0", "2", "6", "/", "0", "2", "/", "0", "1">>), lot |-> LotC, shipping_status |-> None,
                     normalized_lot_id |-> None],
                    [shipping_date |-> StrV(<<"2", "0", "2", "6", "-", "0", "2", "-", "0", "8">>), lot |-> LotD, shipping_status |-> Shipped,
                     normalized_lot_id |-> None] >>)]

\* most rows of the production table of a report run
MaxReportRows == 3

\* the rows of the pool at the chosen positions, in file order
RECURSIVE PoolRows(_, _)
PoolRows(chosen, i) ==
    IF i > Len(ReportTables.production) THEN <<>>
    ELSE (IF i \in chosen THEN <<ReportTables.production[i]>> ELSE <<>>) \o PoolRows(chosen, i + 1)

InitReport ==
    /\ pc = "ready"
    /\ \E chosen \in {c \in SUBSET (1..Len(ReportTables.production)) : Cardinality(c) <= MaxReportRows} :
          production_df = ProductionTable(PoolRows(chosen, 1))
    /\ shipping_df = ReportTables.shipping
    /\ anchor_date \in {Timestamp(2026, 2, 4, 0), Timestamp(2026, 2, 2, 3600),
                         Timestamp(2026, 2, 8, 0), Timestamp(2026, 2, 1, 0)}
    /\ config \in {AppConfig(3), AppConfig(7), AppConfig(14)}
    /\ week = NoWeek
    /\ summary = NoSummary
    /\ drill = NoDrill
    /\ parts = NoParts
    /\ raw_lot_id = None
    /\ normalized = NoLot
    /\ date_value = None
    /\ parsed_date = NoOutcome
    /\ result = NoResult

WeeklySummary ==
    /\ pc = "done"
    /\ result.error = ""
    /\ summary' = weekly_summary(config, result.consolidated, anchor_date)
    /\ pc' = "reported"
    /\ UNCHANGED <<parts, raw_lot_id, normalized, date_value, parsed_date,
                   production_df, shipping_df, result, anchor_date, config, week, drill>>

DrillDownByLine(line_name) ==
    /\ pc = "reported"
    /\ drill' = [view |-> "line", line_name |-> line_name, category |-> None,
                 include_previous_period |-> FALSE,
                 rows |-> drill_down_by_line(config, result.consolidated, line_name,
                                             anchor_date)]
    /\ pc' = "drilled"
    /\ UNCHANGED <<parts, raw_lot_id, normalized, date_value, parsed_date,
                   production_df, shipping_df, result, anchor_date, config, week,
                   summary>>

DrillDownByCategory(category, include_previous_period) ==
    /\ pc = "reported"
    /\ drill' = [view |-> "category", line_name |-> None, category |-> category,
                 include_previous_period |-> include_previous_period,
                 rows |-> drill_down_by_category(config, result.consolidated, category,
                                                 anchor_date, include_previous_period)]
    /\ pc' = "drilled"
    /\ UNCHANGED <<parts, raw_lot_id, normalized, date_value, parsed_date,
                   production_df, shipping_df, result, anchor_date, config, week,
                   summary>>

NextReport ==
    \/ \E include_flagged \in BOOLEAN : Consolidate(include_flagged)
    \/ WeeklySummary
    \/ \E line_name \in {r.production_line : r \in {x \in Rows(ReportTables.production) :
                                                        notna(x.production_line)}} :
          DrillDownByLine(line_name)
    \/ \E category \in {issue_category(r) : r \in Rows(ReportTables.production)},
          include_previous_period \in BOOLEAN :
          DrillDownByCategory(category, include_previous_period)

SpecReport == InitReport /\ [][NextReport]_vars

----------------------------------------------------------------------------
(* Properties.  Returned == the call came back with a result.               *)

Returned == pc = "done" /\ result.error = ""

ParsedDateOf(r) == IF r.dataset = "production" THEN r.production_date ELSE r.ship_date
RawDateOf(r) == IF r.dataset = "production" THEN r.production_date_raw ELSE r.ship_date_raw

\* P holds of every row of the two prepared tables
EveryPreparedRow(P(_)) ==
    /\ \A i \in 1..Len(result.production) : P(result.production[i])
    /\ \A i \in 1..Len(result.shipping) : P(result.shipping[i])

SomePreparedRow(P(_)) ==
    \/ \E i \in 1..Len(result.production) : P(result.production[i])
    \/ \E i \in 1..Len(result.shipping) : P(result.shipping[i])

\* P holds of every row of the consolidated and of the flagged_rows output
EveryOutputRow(P(_)) ==
    /\ \A i \in 1..Len(result.consolidated) : P(result.consolidated[i])
    /\ \A i \in 1..Len(result.flagged_rows) : P(result.flagged_rows[i])

SomeOutputRow(P(_)) ==
    \/ \E i \in 1..Len(result.consolidated) : P(result.consolidated[i])
    \/ \E i \in 1..Len(result.flagged_rows) : P(result.flagged_rows[i])

\* how many rows of a table come from the production row with this source_row
Placed(table, src) == Cardinality({i \in 1..Len(table) : table[i].source_row = src})

\* every production input row is found exactly once among flagged_rows and the
\* unflagged rows of consolidated, and the two outputs are split by needs_review
ExactPartition ==
    /\ \A k \in 1..Len(production_df.rows) :
          Placed(result.flagged_rows, production_df.rows[k].source_row)
          + Placed(SelectSeq(result.consolidated, LAMBDA r : ~r.needs_review),
                   production_df.rows[k].source_row) = 1
    /\ \A i \in 1..Len(result.flagged_rows) : result.flagged_rows[i].needs_review
    /\ result.include_flagged =>
          /\ Len(result.consolidated) = Len(production_df.rows)
          /\ \A i \in 1..Len(result.flagged_rows) :
                Placed(result.consolidated, result.flagged_rows[i].source_row) = 1
    /\ ~result.include_flagged =>
          \A i \in 1..Len(result.consolidated) : ~result.consolidated[i].needs_review

\* C1: for every pair of input tables consolidate_logs places each production
\* row exactly once: no row is duplicated by the join and none is lost, and
\* flagged_rows holds exactly the rows with needs_review = true.
C1_EveryProductionRowPlacedOnce == pc = "done" => ExactPartition

\* C1 on the runs that return a result: there the partition is exact.
C1_PlacedOnceWhenReturned == Returned => ExactPartition

----------------------------------------------------------------------------

\* the texts C2 calls spellings of LOT-D-S: any letter case, the L0T typo,
\* blanks around, any separators between the three parts
IsSpelling(p) ==
    /\ p.kind = "str"
    /\ p.lead \in Pads /\ p.trail \in Pads
    /\ p.prefix \in GoodPrefixes
    /\ p.date \in GoodDates /\ p.seq \in GoodSeqs

CanonicalOf(p) == StrV(LOT \o <<"-">> \o p.date \o <<"-">> \o p.seq)

\* C2: every spelling of a lot normalizes to status ok with the canonical id
\* LOT-D-S, and normalizing a canonical id again returns it unchanged.
C2_SpellingsShareCanonicalId ==
    pc = "done" =>
        /\ IsSpelling(parts) =>
              normalized = LotNormalization(CanonicalOf(parts), "ok", None)
        /\ normalized.status = "ok" =>
              normalize_lot_id(normalized.canonical_lot_id) = normalized

\* C2's case: a spelling with the typo, lower case, blanks and other
\* separators has been normalized
C2_Witness ==
    /\ pc = "done"
    /\ IsSpelling(parts)
    /\ parts.prefix = <<"l", "0", "t">> /\ parts.lead = <<" ">> /\ parts.sep1 = <<"_">>
    /\ parts.sep2 = <<>>
    /\ normalized.canonical_lot_id = CanonicalOf(parts)

\* the compacted form of C3: trimmed, uppercased, L0T corrected, separators removed
Compacted(text) == RemoveSeparators(CorrectTypo(upper(strip(text))))

ExactlyLotDateSeq(compact) ==
    /\ Len(compact) = 3 + DateDigits + SeqDigits
    /\ SubSeq(compact, 1, 3) = LOT
    /\ AllDigits(SubSeq(compact, 4, Len(compact)))

\* C3: a non-blank input whose compacted form is not exactly LOT, 8 digits,
\* 3 digits is rejected: no canonical id, status needs_review and the
\* "does not match expected pattern" reason with the original value.
C3_OnlyExactPatternAccepted ==
    (/\ pc = "done"
     /\ parts.kind = "str"
     /\ strip(raw_lot_id.s) # <<>>
     /\ ~ExactlyLotDateSeq(Compacted(raw_lot_id.s)))
    => normalized = LotNormalization(None, "needs_review",
                        Message("Lot ID does not match expected pattern", raw_lot_id))

LotColumnsAgree(r) ==
    /\ notna(r.canonical_lot_id) <=> r.lot_normalization_status = "ok"
    /\ notna(r.lot_error_reason) <=> r.lot_normalization_status = "needs_review"

\* C4: in every row of the prepared production table, the prepared shipping
\* table and the consolidated table, canonical_lot_id is present iff
\* lot_normalization_status is ok, and lot_error_reason is present iff it is
\* needs_review.
C4_CanonicalIffOk ==
    pc = "done" =>
        /\ notna(normalized.canonical_lot_id) <=> normalized.status = "ok"
        /\ notna(normalized.reason) <=> normalized.status = "needs_review"
        /\ EveryPreparedRow(LotColumnsAgree)
        /\ EveryOutputRow(LotColumnsAgree)

\* C4's case: a rejected lot id went through preparation and the join
C4_Witness ==
    /\ Returned
    /\ normalized.status = "needs_review"
    /\ Len(result.consolidated) = 1
    /\ isna(result.consolidated[1].canonical_lot_id)
    /\ isna(result.shipping[1].canonical_lot_id)

----------------------------------------------------------------------------

\* the date the generated cell denotes, when it denotes one
DenotesDate(p) == p.kind \in {"iso", "ymd", "us", "ts"} /\ ValidDate(p.y, p.m, p.d)

\* C5: parse_mixed_date never raises; it returns either a parsed date at
\* midnight with no reason or an absent date with a reason, exactly one of the
\* two being present, and preparation copies both into the date column and
\* date_error_reason of the prepared production and shipping rows.
C5_DateOrReason ==
    pc = "done" =>
        /\ ~parsed_date.raised
        /\ result.error = ""
        /\ notna(parsed_date.parsed) <=> isna(parsed_date.reason)
        /\ notna(parsed_date.parsed) =>
              parsed_date.parsed.k = "ts" /\ parsed_date.parsed.s[4] = 0
        /\ DenotesDate(parts) =>
              parsed_date.parsed = Timestamp(parts.y, parts.m, parts.d, 0)
        /\ (isna(parsed_date.parsed) /\ ~IsNoneOrFloatNaN(date_value)) =>
              parsed_date.reason = Message("Unparseable date value", date_value)
        /\ result.production[1].production_date = parsed_date.parsed
        /\ result.production[1].date_error_reason = parsed_date.reason
        /\ result.shipping[1].ship_date = parsed_date.parsed
        /\ result.shipping[1].date_error_reason = parsed_date.reason

\* C5's case: a well-shaped text that is no calendar day was parsed and
\* prepared, and came out as an absent date with the unparseable reason
C5_Witness ==
    /\ pc = "done"
    /\ parts.kind = "iso" /\ ~ValidDate(parts.y, parts.m, parts.d)
    /\ parsed_date.parsed = NaT
    /\ Contains(parsed_date.reason, "Unparseable date value")
    /\ result.production[1].date_error_reason = parsed_date.reason
    /\ isna(result.shipping[1].ship_date)

\* C6: every empty or null input, the empty string included, gives an absent
\* date with the reason "Date is empty".
C6_EmptyInputIsDateIsEmpty ==
    (pc = "done" /\ (isna(date_value) \/ date_value = StrV(<<>>))) =>
        /\ parsed_date.parsed = NaT
        /\ parsed_date.reason = Message("Date is empty", None)

----------------------------------------------------------------------------

\* the provided normalized id, once normalized, differs from the computed one
Mismatch(r) ==
    /\ notna(r.provided_normalized_lot_id)
    /\ notna(r.canonical_lot_id)
    /\ normalize_lot_id(r.provided_normalized_lot_id).status = "ok"
    /\ normalize_lot_id(r.provided_normalized_lot_id).canonical_lot_id # r.canonical_lot_id

BadDateText == StrV(<<"b", "a", "d", "-", "d", "a", "t", "e">>)

NeedsReviewIffFailure(r) ==
    /\ r.needs_review <=>
          (isna(ParsedDateOf(r)) \/ isna(r.canonical_lot_id) \/ Mismatch(r))
    /\ ~Mismatch(r) =>
          r.review_reason = Concat(fillna_empty(r.date_error_reason),
                                   fillna_empty(r.lot_error_reason))
    /\ (RawDateOf(r) = BadDateText /\ ~Mismatch(r)) =>
          /\ r.needs_review
          /\ Contains(r.review_reason, "Unparseable date value")

\* C7: a prepared row has needs_review = true exactly when its date failed to
\* parse, its raw lot failed to normalize, or its provided normalized id
\* differs from the computed one; without such a mismatch review_reason is the
\* date reason followed by the lot reason, so a row dated "bad-date" is
\* flagged with "Unparseable date value".
C7_NeedsReviewIffFailure == Returned => EveryPreparedRow(NeedsReviewIffFailure)

BadDateFlagged(r) ==
    /\ RawDateOf(r) = BadDateText
    /\ notna(r.canonical_lot_id)
    /\ ~Mismatch(r)
    /\ r.needs_review
    /\ Contains(r.review_reason, "Unparseable date value")

\* C7's case: a "bad-date" row with a good lot and no mismatch was prepared
C7_Witness == Returned /\ SomePreparedRow(BadDateFlagged)

AmbiguityText == "Ambiguous lot match: provided normalized_lot_id conflicts with raw lot normalization"

MismatchOverwrites(r) ==
    /\ Mismatch(r) => (r.needs_review /\ r.review_reason = Message(AmbiguityText, None))
    /\ ~Mismatch(r) => ~Contains(r.review_reason, AmbiguityText)

\* C8: on a prepared row whose provided normalized id differs from the
\* computed one, needs_review is true and review_reason is exactly the
\* ambiguity message, whatever date or lot reason the row had; a row without
\* such a mismatch never carries that message.
C8_MismatchOverwritesReason == Returned => EveryPreparedRow(MismatchOverwrites)

MismatchWithDateError(r) ==
    /\ Mismatch(r)
    /\ notna(r.date_error_reason)
    /\ r.review_reason = Message(AmbiguityText, None)

\* C8's case: a mismatching row that also has a date error was prepared
C8_Witness == Returned /\ SomePreparedRow(MismatchWithDateError)

----------------------------------------------------------------------------

\* the prepared shipping rows of a canonical lot, by position
LotShipments(lot) ==
    {j \in 1..Len(result.shipping) : result.shipping[j].canonical_lot_id = lot}

\* a ships strictly later than b; an absent date is below every date
Outranks(a, b) ==
    /\ notna(a.ship_date)
    /\ isna(b.ship_date) \/ TsLess(b.ship_date, a.ship_date)

\* row j is the one C9 selects among the shipping rows of its lot
IsLatest(j, lot) ==
    \A k \in LotShipments(lot) \ {j} :
        \/ Outranks(result.shipping[j], result.shipping[k])
        \/ ~Outranks(result.shipping[k], result.shipping[j]) /\ j < k

CarriesShipment(c, s) ==
    /\ c.ship_status = s.ship_status
    /\ c.ship_date = s.ship_date
    /\ c.shipping_source_file = s.source_file
    /\ c.shipping_source_sheet = s.source_sheet
    /\ c.shipping_source_row = s.source_row

JoinedToLatest(c) ==
    /\ (notna(c.canonical_lot_id) /\ LotShipments(c.canonical_lot_id) # {}) =>
          /\ c.shipping_match_status = "matched"
          /\ \E j \in LotShipments(c.canonical_lot_id) :
                IsLatest(j, c.canonical_lot_id) /\ CarriesShipment(c, result.shipping[j])
    /\ c.shipping_match_status = "matched" =>
          /\ notna(c.canonical_lot_id)
          /\ \E j \in LotShipments(c.canonical_lot_id) :
                c.shipping_source_row = result.shipping[j].source_row

\* each production row appears once among the output rows
OncePerProductionRow ==
    \A k \in 1..Len(result.production) :
        Placed(result.flagged_rows, result.production[k].source_row)
        + Placed(SelectSeq(result.consolidated, LAMBDA r : ~r.needs_review),
                 result.production[k].source_row) = 1

\* C9: a production row whose canonical lot has at least one shipping row is
\* joined to exactly one of them and is 'matched'; its ship_status, ship_date
\* and shipping source reference are those of the lot's shipping row with the
\* latest parsed ship date, absent dates ranking lowest and equal dates going
\* to the earlier row; a shipping row without a canonical lot is never joined.
C9_JoinedToLatestShipment ==
    Returned => (OncePerProductionRow /\ EveryOutputRow(JoinedToLatest))

JoinedPastTheFirst(c) ==
    /\ c.shipping_match_status = "matched"
    /\ c.raw_lot_id # c.shipping_raw_lot_id
    /\ \E j \in LotShipments(c.canonical_lot_id) :
          result.shipping[j].source_row < c.shipping_source_row

\* C9's case: a lot with several shipping rows was joined to one that is not
\* the first of them, spelled differently from the production row
C9_Witness == Returned /\ SomeOutputRow(JoinedPastTheFirst)

PreparedNeedsReview(c) ==
    \E k \in 1..Len(result.production) :
        /\ result.production[k].source_row = c.source_row
        /\ result.production[k].needs_review

UnmatchedIsFlagged(c) ==
    /\ (isna(c.canonical_lot_id) \/ LotShipments(c.canonical_lot_id) = {}) =>
          /\ isna(c.ship_status)
          /\ isna(c.ship_date)
          /\ c.shipping_match_status = "unmatched"
          /\ c.needs_review
    /\ c.needs_review <=>
          (PreparedNeedsReview(c) \/ c.shipping_match_status = "unmatched")

\* C10: a production row with no canonical lot, or whose lot has no shipping
\* row, has absent ship_status and ship_date, is 'unmatched' and needs review;
\* on every output row needs_review is that of the prepared production row or
\* 'unmatched', so the shipping row's own defects never flag a matched row.
C10_UnmatchedForcesReview == Returned => EveryOutputRow(UnmatchedIsFlagged)

CleanButUnmatched(c) ==
    /\ notna(c.canonical_lot_id)
    /\ ~PreparedNeedsReview(c)
    /\ c.shipping_match_status = "unmatched"
    /\ c.needs_review

MatchedToFlaggedShipment(c) ==
    /\ c.shipping_match_status = "matched"
    /\ ~c.needs_review
    /\ \E j \in LotShipments(c.canonical_lot_id) :
          /\ result.shipping[j].source_row = c.shipping_source_row
          /\ result.shipping[j].needs_review

\* C10's case: one clean production row is flagged only for being unmatched,
\* another is matched to a shipping row that needs review and stays unflagged
C10_Witness ==
    /\ Returned
    /\ SomeOutputRow(CleanButUnmatched)
    /\ SomeOutputRow(MatchedToFlaggedShipment)

----------------------------------------------------------------------------

NoMatchText == "No matching shipping lot found"

\* the review_reason preparation gave the production row of an output row
PreparedReasonIs(c, reason) ==
    \E k \in 1..Len(result.production) :
        /\ result.production[k].source_row = c.source_row
        /\ result.production[k].review_reason = reason

PreparedReasonEmpty(c) == PreparedReasonIs(c, StrV(<<>>))

DefaultReasonOnlyWhenEmpty(c) ==
    /\ (c.shipping_match_status = "unmatched" /\ PreparedReasonEmpty(c)) =>
          c.review_reason = Message(NoMatchText, None)
    /\ (c.shipping_match_status = "unmatched" /\ Contains(c.review_reason, NoMatchText)) =>
          PreparedReasonEmpty(c)
    /\ ~PreparedReasonEmpty(c) => PreparedReasonIs(c, c.review_reason)

\* C11: an unmatched production row gets the review_reason "No matching
\* shipping lot found" only when preparation left it without a reason; a
\* non-empty reason from preparation (date error, lot error or ambiguity
\* message) is left unchanged by the join.
C11_DefaultReasonKeepsExisting == Returned => EveryOutputRow(DefaultReasonOnlyWhenEmpty)

UnmatchedKeepsReason(c) ==
    /\ c.shipping_match_status = "unmatched"
    /\ notna(c.canonical_lot_id)
    /\ Contains(c.review_reason, "Unparseable date value")

UnmatchedGetsDefault(c) ==
    /\ c.shipping_match_status = "unmatched"
    /\ PreparedReasonEmpty(c)
    /\ c.review_reason = Message(NoMatchText, None)

\* C11's case: one unmatched row kept its date reason, another one that had
\* no reason received the default
C11_Witness ==
    /\ Returned
    /\ SomeOutputRow(UnmatchedKeepsReason)
    /\ SomeOutputRow(UnmatchedGetsDefault)

----------------------------------------------------------------------------

\* the prepared tables of the inputs of the run
PreparedProduction == _prepare_production(production_df)
PreparedShipping == _prepare_shipping(shipping_df)

\* positions of the rows of a lot in a prepared table
RowsOfLot(table, lot) == {i \in 1..Len(table) : table[i].canonical_lot_id = lot}

CanonicalLots(table) ==
    {table[i].canonical_lot_id : i \in {j \in 1..Len(table) : notna(table[j].canonical_lot_id)}}

DistinctLines(lot) ==
    {PreparedProduction[i].production_line :
        i \in {j \in RowsOfLot(PreparedProduction, lot) :
                  notna(PreparedProduction[j].production_line)}}

DistinctStatuses(lot) ==
    {PreparedShipping[i].ship_status : i \in RowsOfLot(PreparedShipping, lot)}

SourceTriple(r) ==
    [source_file |-> r.source_file, source_sheet |-> r.source_sheet,
     source_row |-> r.source_row]

SourceTriples(table, lot) == {SourceTriple(table[i]) : i \in RowsOfLot(table, lot)}

\* a sequence lists the members of a set once each
ListsOnce(list, members) ==
    /\ {list[i] : i \in 1..Len(list)} = members
    /\ Len(list) = Cardinality(members)

Ascending(list) ==
    \A i \in 1..Len(list) : \A j \in 1..Len(list) :
        i < j => TextLess(list[i].s, list[j].s)

ConflictRecordsOf(lot) ==
    {i \in 1..Len(result.conflict_rows) : result.conflict_rows[i].canonical_lot_id = lot}

RecordDescribes(rec, lot) ==
    /\ ListsOnce(rec.conflict_production_lines, DistinctLines(lot))
    /\ Ascending(rec.conflict_production_lines)
    /\ ListsOnce(rec.conflict_ship_statuses, DistinctStatuses(lot))
    /\ Ascending(rec.conflict_ship_statuses)
    /\ ListsOnce(rec.production_sources, SourceTriples(PreparedProduction, lot))
    /\ ListsOnce(rec.shipping_sources, SourceTriples(PreparedShipping, lot))

ConflictRecordsExact ==
    /\ \A lot \in CanonicalLots(PreparedProduction) \cup CanonicalLots(PreparedShipping) :
          IF Cardinality(DistinctLines(lot)) > 1 \/ Cardinality(DistinctStatuses(lot)) > 1
          THEN /\ Cardinality(ConflictRecordsOf(lot)) = 1
               /\ \A i \in ConflictRecordsOf(lot) :
                     RecordDescribes(result.conflict_rows[i], lot)
          ELSE ConflictRecordsOf(lot) = {}
    /\ \A i \in 1..Len(result.conflict_rows) :
          /\ notna(result.conflict_rows[i].canonical_lot_id)
          /\ result.conflict_rows[i].canonical_lot_id
                \in CanonicalLots(PreparedProduction) \cup CanonicalLots(PreparedShipping)

\* C12: conflict_rows holds exactly one record for a canonical lot iff its
\* prepared production rows carry more than one distinct non-null
\* production_line or its prepared shipping rows more than one distinct
\* ship_status; the record lists the competing values of each side sorted and
\* without duplicates and the distinct source triples of every row of the lot
\* on each side; rows without a canonical lot never contribute.
C12_ConflictRecordPerConflictedLot == pc = "done" => ConflictRecordsExact

\* C12 on the runs that return a result: there the records are exact.
C12_ConflictRecordsWhenReturned == Returned => ConflictRecordsExact

\* a lot that is conflicted and has no row at all on one of the two sides
OneSidedConflict(lot) ==
    \/ /\ Cardinality(DistinctLines(lot)) > 1
       /\ RowsOfLot(PreparedShipping, lot) = {}
    \/ /\ Cardinality(DistinctStatuses(lot)) > 1
       /\ RowsOfLot(PreparedProduction, lot) = {}

\* C13: consolidate_logs returns a result and never aborts, whatever defects
\* and conflicts the annotated input tables contain; a lot conflicted on one
\* side with no row on the other side yields a conflict record whose list for
\* the missing side is empty.
C13_NeverAborts ==
    pc = "done" =>
        /\ result.error = ""
        /\ \A lot \in CanonicalLots(PreparedProduction) \cup CanonicalLots(PreparedShipping) :
              OneSidedConflict(lot) =>
                  \E i \in ConflictRecordsOf(lot) :
                      \/ result.conflict_rows[i].production_sources = <<>>
                      \/ result.conflict_rows[i].shipping_sources = <<>>

----------------------------------------------------------------------------

ShippedOrPartial(status) == status = StrV(<<"S", "h", "i", "p", "p", "e", "d">>) \/ status = StrV(<<"P", "a", "r", "t", "i", "a", "l">>)

ProblematicIffIssueAndShipped(c) ==
    /\ c.is_problematic_but_shipped <=> (c.line_issue /\ ShippedOrPartial(c.ship_status))
    /\ c.shipping_match_status = "unmatched" => ~c.is_problematic_but_shipped
    /\ ~c.line_issue => ~c.is_problematic_but_shipped

\* C14: in every consolidated row is_problematic_but_shipped is true iff
\* line_issue is true and the joined ship_status is 'Shipped' or 'Partial'; it
\* is false for every unmatched row and for every row without a line issue.
C14_ProblematicButShipped == Returned => EveryOutputRow(ProblematicIffIssueAndShipped)

IssueShipped(c) == c.line_issue /\ c.is_problematic_but_shipped

IssueUnmatched(c) ==
    /\ c.line_issue
    /\ c.shipping_match_status = "unmatched"
    /\ ~c.is_problematic_but_shipped

\* C14's case: a row with a line issue joined to a shipped lot is flagged, and
\* a row with a line issue that is unmatched is not
C14_Witness ==
    /\ Returned
    /\ SomeOutputRow(IssueShipped)
    /\ SomeOutputRow(IssueUnmatched)

----------------------------------------------------------------------------

\* the raw lot strings seen for a canonical lot in both prepared tables
RawLotsOf(lot) ==
    {result.production[i].raw_lot_id : i \in RowsOfLot(result.production, lot)}
    \cup {result.shipping[i].raw_lot_id : i \in RowsOfLot(result.shipping, lot)}

AliasesAreAllRawLots(c) ==
    notna(c.canonical_lot_id) =>
        /\ ListsOnce(c.raw_lot_aliases, RawLotsOf(c.canonical_lot_id))
        /\ \E i \in 1..Len(c.raw_lot_aliases) : c.raw_lot_aliases[i] = c.raw_lot_id

\* C15: on every row of the consolidated output that has a canonical lot,
\* raw_lot_aliases is exactly the set of raw lot strings of all prepared
\* production rows and all prepared shipping rows of that canonical lot, so it
\* always contains the row's own raw_lot_id.
C15_AliasesOfBothTables ==
    Returned =>
        \A i \in 1..Len(result.consolidated) : AliasesAreAllRawLots(result.consolidated[i])

\* an alias that comes from a shipping row other than the joined one
AliasFromOtherShipment(c) ==
    /\ c.shipping_match_status = "matched"
    /\ \E i \in 1..Len(c.raw_lot_aliases) :
          /\ c.raw_lot_aliases[i] # c.raw_lot_id
          /\ c.raw_lot_aliases[i] # c.shipping_raw_lot_id

\* C15's case: a consolidated row lists the spelling of a shipping row of its
\* lot that is not the row it was joined to
C15_Witness ==
    /\ Returned
    /\ \E i \in 1..Len(result.consolidated) : AliasFromOtherShipment(result.consolidated[i])

\* C16: every row of the flagged_rows output carries raw_lot_aliases, like the
\* rows of the consolidated output, for both values of include_flagged.
C16_FlaggedRowsCarryAliases ==
    Returned =>
        /\ \A i \in 1..Len(result.consolidated) :
              "raw_lot_aliases" \in DOMAIN result.consolidated[i]
        /\ \A i \in 1..Len(result.flagged_rows) :
              "raw_lot_aliases" \in DOMAIN result.flagged_rows[i]

\* the defects C17 lists: unparseable date, blank or malformed lot id,
\* provided-against-computed conflict
HasDefect(r) ==
    \/ notna(r.date_error_reason)
    \/ notna(r.lot_error_reason)
    \/ Mismatch(r)

\* a flagged row that stands for the prepared row r
FlaggedFor(r) ==
    \E i \in 1..Len(result.flagged_rows) :
        \/ /\ result.flagged_rows[i].dataset = r.dataset
           /\ result.flagged_rows[i].source_row = r.source_row
        \/ /\ r.dataset = "shipping"
           /\ result.flagged_rows[i].shipping_source_row = r.source_row

DefectIsFlagged(r) == HasDefect(r) => FlaggedFor(r)

\* C17: every input row, production or shipping, that has an unparseable
\* date, a blank or malformed lot id or a provided-against-computed lot
\* conflict is represented in flagged_rows.
C17_EveryDefectInFlaggedRows == Returned => EveryPreparedRow(DefectIsFlagged)

ProductionDefectIsFlagged(r) == r.dataset = "production" => DefectIsFlagged(r)

\* C17 for the production rows alone: each defective one is in flagged_rows.
C17_ProductionDefectsFlagged == Returned => EveryPreparedRow(ProductionDefectIsFlagged)

----------------------------------------------------------------------------

\* 0001-01-01, the day of ordinal 1, is a Monday
IsMonday(ts) == toordinal(ts) % 7 = 1

Midnight(ts) == ts.k = "ts" /\ ValidDate(ts.s[1], ts.s[2], ts.s[3]) /\ ts.s[4] = 0

SameDay(ts, y, m, d) == ts.s[1] = y /\ ts.s[2] = m /\ ts.s[3] = d

\* C18: week_bounds returns (start, end) with start a Monday, end = start + 6
\* days, the following Sunday, and start <= anchor date <= end; every date of
\* that Monday-to-Sunday week yields the same bounds, and the anchor
\* 2026-02-04 gives 2026-02-02 to 2026-02-08.
C18_WeekBoundsMondayToSunday ==
    pc = "done" =>
        /\ Midnight(week.start) /\ Midnight(week.end)
        /\ IsMonday(week.start)
        /\ toordinal(week.end) = toordinal(week.start) + 6
        /\ toordinal(week.start) <= toordinal(anchor_date)
        /\ toordinal(anchor_date) <= toordinal(week.end)
        /\ \A k \in 0..6 : week_bounds(AddDays(week.start, k)) = week
        /\ SameDay(anchor_date, 2026, 2, 4) =>
              week = [start |-> Timestamp(2026, 2, 2, 0), end |-> Timestamp(2026, 2, 8, 0)]
        /\ SameDay(anchor_date, 2024, 2, 29) =>
              week = [start |-> Timestamp(2024, 2, 26, 0), end |-> Timestamp(2024, 3, 3, 0)]
        /\ SameDay(anchor_date, 2026, 1, 1) =>
              week = [start |-> Timestamp(2025, 12, 29, 0), end |-> Timestamp(2026, 1, 4, 0)]

\* C18's case: the bounds of a Sunday anchor with a time of day were computed
C18_Witness ==
    /\ pc = "done"
    /\ anchor_date = Timestamp(2026, 2, 8, 3600)
    /\ week.start = Timestamp(2026, 2, 2, 0)
    /\ week.end = Timestamp(2026, 2, 8, 0)

----------------------------------------------------------------------------

Reported == pc = "reported"

\* positions of the consolidated rows dated from day first to day last
RowsDated(first, last) ==
    {i \in 1..Len(result.consolidated) :
        /\ result.consolidated[i].production_date.k = "ts"
        /\ first <= toordinal(result.consolidated[i].production_date)
        /\ toordinal(result.consolidated[i].production_date) <= last}

CurrentWeekRows == RowsDated(toordinal(summary.week_start), toordinal(summary.week_end))

RowsOfLine(line) ==
    {i \in CurrentWeekRows : result.consolidated[i].production_line = line}

RankingRowCounts(rk) ==
    /\ RowsOfLine(rk.production_line) # {}
    /\ rk.total_rows = Cardinality(RowsOfLine(rk.production_line))
    /\ rk.issue_count =
          Cardinality({i \in RowsOfLine(rk.production_line) : result.consolidated[i].line_issue})
    /\ rk.unique_lots =
          Cardinality({result.consolidated[i].canonical_lot_id :
              i \in {j \in RowsOfLine(rk.production_line) :
                        notna(result.consolidated[j].canonical_lot_id)}})

RankedBefore(a, b) ==
    \/ a.issue_count > b.issue_count
    \/ /\ a.issue_count = b.issue_count
       /\ a.total_rows > b.total_rows
    \/ /\ a.issue_count = b.issue_count
       /\ a.total_rows = b.total_rows
       /\ notna(a.production_line)
       /\ isna(b.production_line) \/ TextLess(a.production_line.s, b.production_line.s)

\* C19: the ranking table has exactly one row per production line with at
\* least one consolidated row dated inside the current week, bounds included;
\* issue_count counts those rows with line_issue, total_rows all of them,
\* unique_lots their distinct canonical lots; rows are ordered by issue_count
\* descending, then total_rows descending, then production_line ascending.
C19_RankingPerLine ==
    Reported =>
        /\ IsMonday(summary.week_start)
        /\ toordinal(summary.week_end) = toordinal(summary.week_start) + 6
        /\ toordinal(summary.week_start) <= toordinal(anchor_date)
        /\ toordinal(anchor_date) <= toordinal(summary.week_end)
        /\ \A i \in CurrentWeekRows :
              Cardinality({k \in 1..Len(summary.ranking) :
                  summary.ranking[k].production_line
                      = result.consolidated[i].production_line}) = 1
        /\ \A k \in 1..Len(summary.ranking) : RankingRowCounts(summary.ranking[k])
        /\ \A j \in 1..Len(summary.ranking) : \A k \in 1..Len(summary.ranking) :
              j < k =>
                  /\ RankedBefore(summary.ranking[j], summary.ranking[k])
                  /\ summary.ranking[j].issue_count >= summary.ranking[k].issue_count

\* C19's case: two lines with the same issue_count were ranked by total_rows,
\* one of them through a row dated on the Sunday that ends the week
C19_Witness ==
    /\ Reported
    /\ Len(summary.ranking) = 2
    /\ summary.ranking[1].issue_count = summary.ranking[2].issue_count
    /\ summary.ranking[1].total_rows > summary.ranking[2].total_rows
    /\ TextLess(summary.ranking[2].production_line.s, summary.ranking[1].production_line.s)
    /\ \E i \in CurrentWeekRows : result.consolidated[i].production_date = summary.week_end

PreviousWindowRows ==
    RowsDated(toordinal(summary.week_start) - config.comparison_period_days,
              toordinal(summary.week_end) - config.comparison_period_days)

CategoryOf(i) ==
    IF isna(result.consolidated[i].primary_issue) THEN StrV(<<"U", "n", "s", "p", "e", "c", "i", "f", "i", "e", "d">>)
    ELSE result.consolidated[i].primary_issue

IssueRows(rows, category) ==
    {i \in rows : result.consolidated[i].line_issue /\ CategoryOf(i) = category}

TrendRowCounts(tr) ==
    /\ IssueRows(CurrentWeekRows \cup PreviousWindowRows, tr.issue_category) # {}
    /\ tr.current_count = Cardinality(IssueRows(CurrentWeekRows, tr.issue_category))
    /\ tr.previous_count = Cardinality(IssueRows(PreviousWindowRows, tr.issue_category))
    /\ tr.delta = tr.current_count - tr.previous_count
    /\ tr.delta > 0 => tr.direction = "up"
    /\ tr.delta < 0 => tr.direction = "down"
    /\ tr.delta = 0 => tr.direction = "flat"

\* C20: the trending table has one row for every issue category, an absent
\* category counting as 'Unspecified', that has a line_issue row in the
\* current window or in the previous window, the current week moved back by
\* comparison_period_days; current_count and previous_count count the
\* line_issue rows of the category in each window, delta is their difference
\* and direction is 'up', 'down' or 'flat' by the sign of delta.
C20_TrendingPerCategory ==
    Reported =>
        /\ \A i \in CurrentWeekRows \cup PreviousWindowRows :
              result.consolidated[i].line_issue =>
                  Cardinality({k \in 1..Len(summary.trending) :
                      summary.trending[k].issue_category = CategoryOf(i)}) = 1
        /\ \A k \in 1..Len(summary.trending) : TrendRowCounts(summary.trending[k])

\* C20's case: with a comparison period of two weeks one category went up
\* from none and the absent category went down to none
C20_Witness ==
    /\ Reported
    /\ config.comparison_period_days = 14
    /\ \E k \in 1..Len(summary.trending) :
          /\ summary.trending[k].issue_category = StrV(<<"U", "n", "s", "p", "e", "c", "i", "f", "i", "e", "d">>)
          /\ summary.trending[k].current_count = 0
          /\ summary.trending[k].direction = "down"
    /\ \E k \in 1..Len(summary.trending) :
          /\ summary.trending[k].previous_count = 0
          /\ summary.trending[k].direction = "up"

----------------------------------------------------------------------------

ReasonIffFlagged(c) ==
    /\ (c.review_reason # StrV(<<>>)) <=> c.needs_review
    /\ (c.shipping_match_status = "matched" /\ PreparedReasonEmpty(c)) =>
          /\ c.review_reason = StrV(<<>>)
          /\ ~Contains(c.review_reason, NoMatchText)

\* C23: in every row produced by consolidate_logs, consolidated and
\* flagged_rows, review_reason is non-empty iff needs_review is true; a
\* production row that matched a shipping row and has no preparation defect
\* keeps an empty review_reason and never carries "No matching shipping lot
\* found".
C23_ReasonIffNeedsReview == Returned => EveryOutputRow(ReasonIffFlagged)

FlaggedHasReason(c) == c.needs_review => c.review_reason # StrV(<<>>)

\* C23 in one direction: every flagged row states a reason.
C23_FlaggedRowsStateReason == Returned => EveryOutputRow(FlaggedHasReason)

----------------------------------------------------------------------------

Drilled(view) == pc = "drilled" /\ drill.view = view

\* a returned row without the columns the drill-down added to it
Base(d, added) == [f \in DOMAIN d \ added |-> d[f]]

\* the returned rows are the chosen consolidated rows, each as often as chosen
ReturnsExactly(chosen, added) ==
    /\ \A i \in chosen :
          Cardinality({k \in 1..Len(drill.rows) :
              Base(drill.rows[k], added) = result.consolidated[i]})
          = Cardinality({j \in chosen : result.consolidated[j] = result.consolidated[i]})
    /\ \A k \in 1..Len(drill.rows) :
          \E i \in chosen : Base(drill.rows[k], added) = result.consolidated[i]
    /\ Len(drill.rows) = Cardinality(chosen)

DisplaysStatus(d) ==
    /\ notna(d.ship_status) => d.shipping_status_display = d.ship_status
    /\ isna(d.ship_status) => d.shipping_status_display = config.not_found_shipping_label

\* later production dates first; on one date lots ascending, absent lots last
DrillOrdered ==
    \A j \in 1..Len(drill.rows) : \A k \in 1..Len(drill.rows) :
        j < k =>
            /\ toordinal(drill.rows[j].production_date)
                  >= toordinal(drill.rows[k].production_date)
            /\ toordinal(drill.rows[j].production_date)
                  = toordinal(drill.rows[k].production_date) =>
                  /\ isna(drill.rows[j].canonical_lot_id)
                        => isna(drill.rows[k].canonical_lot_id)
                  /\ (notna(drill.rows[j].canonical_lot_id)
                        /\ notna(drill.rows[k].canonical_lot_id)) =>
                        ~TextLess(drill.rows[k].canonical_lot_id.s,
                                  drill.rows[j].canonical_lot_id.s)

\* C21: drill_down_by_line returns exactly the consolidated rows of the
\* requested line dated inside the anchor's current week, bounds included,
\* whose line_issue is true; each returned row shows its ship_status, or the
\* configured not-found label when the status is absent; the rows are
\* ordered by production date descending, then canonical lot ascending.
C21_LineDrillDown ==
    Drilled("line") =>
        /\ ReturnsExactly({i \in RowsOfLine(drill.line_name) : result.consolidated[i].line_issue},
                          {"shipping_status_display", "latest_ship_date_display"})
        /\ \A k \in 1..Len(drill.rows) : DisplaysStatus(drill.rows[k])
        /\ DrillOrdered

\* C21's case: of three rows of the line in the week the one without a line
\* issue was left out and the two returned rows, dated on the Monday that
\* starts the week, were put in lot order, a shipped one that shows its
\* status before one without a status that shows the label
C21_Witness ==
    /\ Drilled("line")
    /\ Cardinality(RowsOfLine(drill.line_name)) > Len(drill.rows)
    /\ Len(drill.rows) = 2
    /\ drill.rows[1].production_date = summary.week_start
    /\ drill.rows[2].production_date = summary.week_start
    /\ drill.rows[1].source_row > drill.rows[2].source_row
    /\ TextLess(drill.rows[1].canonical_lot_id.s, drill.rows[2].canonical_lot_id.s)
    /\ drill.rows[1].shipping_status_display = Shipped
    /\ isna(drill.rows[2].ship_status)
    /\ drill.rows[2].shipping_status_display = config.not_found_shipping_label

----------------------------------------------------------------------------

\* positions of the consolidated rows inside the window of the category
\* drill-down that was asked for
DrillWindowRows ==
    IF drill.include_previous_period
    THEN RowsDated(toordinal(summary.week_start) - config.comparison_period_days,
                   toordinal(summary.week_end))
    ELSE CurrentWeekRows

Returns(i) ==
    \E k \in 1..Len(drill.rows) :
        Base(drill.rows[k], {"shipping_status_display"}) = result.consolidated[i]

TrendingOf(category) ==
    {k \in 1..Len(summary.trending) : summary.trending[k].issue_category = category}

\* C22: drill_down_by_category returns exactly the consolidated rows with
\* line_issue whose category, an absent one being 'Unspecified', is the
\* requested one and whose production date lies in the current week, or
\* between the start of the previous window and the end of the current week
\* when include_previous_period is set; so with include_previous_period every
\* row counted in current_count or previous_count of a trending category is
\* returned for that category, and the drill-down of a category listed in
\* the trending table is not empty.
C22_CategoryDrillDown ==
    Drilled("category") =>
        /\ ReturnsExactly(IssueRows(DrillWindowRows, drill.category),
                          {"shipping_status_display"})
        /\ drill.include_previous_period =>
              /\ \A i \in IssueRows(CurrentWeekRows \cup PreviousWindowRows, drill.category) :
                    Returns(i)
              /\ TrendingOf(drill.category) # {} => drill.rows # <<>>

\* C22's case: the drill-down of a trending category with one row counted in
\* each window returned both rows and left out a row of the category
\* without a line issue
C22_Witness ==
    /\ Drilled("category")
    /\ drill.include_previous_period
    /\ \E k \in TrendingOf(drill.category) :
          /\ summary.trending[k].current_count = 1
          /\ summary.trending[k].previous_count = 1
    /\ Len(drill.rows) = 2
    /\ \E i \in DrillWindowRows :
          /\ CategoryOf(i) = drill.category
          /\ ~result.consolidated[i].line_issue

\* C22's second case: without include_previous_period the row of the
\* previous window was not returned
C22_CurrentOnly ==
    /\ Drilled("category")
    /\ ~drill.include_previous_period
    /\ IssueRows(PreviousWindowRows \ CurrentWeekRows, drill.category) # {}
    /\ Len(drill.rows) = 1

----------------------------------------------------------------------------

DrilledWithPrevious == Drilled("category") /\ drill.include_previous_period

\* the counts of the trending row of the category that was drilled into
CountedCurrent(k) == summary.trending[k].current_count
CountedPrevious(k) == summary.trending[k].previous_count

InCurrentWindow(d) ==
    /\ toordinal(summary.week_start) <= toordinal(d.production_date)
    /\ toordinal(d.production_date) <= toordinal(summary.week_end)

InPreviousWindow(d) ==
    /\ toordinal(summary.week_start) - config.comparison_period_days
          <= toordinal(d.production_date)
    /\ toordinal(d.production_date)
          <= toordinal(summary.week_end) - config.comparison_period_days

InOneWindow(d) == InCurrentWindow(d) # InPreviousWindow(d)

\* C24 as stated: for every comparison_period_days the drill-down of a
\* trending category with include_previous_period returns as many rows as
\* current_count + previous_count of the category, every returned row lying
\* in the current or in the previous window and in one of them only.
C24_DrillDownAgreesWithTrending ==
    DrilledWithPrevious =>
        /\ \A k \in TrendingOf(drill.category) :
              Len(drill.rows) = CountedCurrent(k) + CountedPrevious(k)
        /\ \A j \in 1..Len(drill.rows) : InOneWindow(drill.rows[j])

\* C24 amended: the drill-down of a trending category with
\* include_previous_period agrees with the trending table when
\* comparison_period_days is 7: it returns current_count + previous_count
\* rows, each in exactly one of the two windows.  With a longer period it
\* returns at least that many rows, none in both windows; with a shorter
\* period at most that many, each in one window at least.
C24_DrillDownAgreesAtSevenDays ==
    DrilledWithPrevious =>
        /\ config.comparison_period_days = 7 =>
              /\ \A k \in TrendingOf(drill.category) :
                    Len(drill.rows) = CountedCurrent(k) + CountedPrevious(k)
              /\ \A j \in 1..Len(drill.rows) : InOneWindow(drill.rows[j])
        /\ config.comparison_period_days >= 7 =>
              /\ \A k \in TrendingOf(drill.category) :
                    Len(drill.rows) >= CountedCurrent(k) + CountedPrevious(k)
              /\ \A j \in 1..Len(drill.rows) :
                    ~(InCurrentWindow(drill.rows[j]) /\ InPreviousWindow(drill.rows[j]))
        /\ config.comparison_period_days <= 7 =>
              /\ \A k \in TrendingOf(drill.category) :
                    Len(drill.rows) <= CountedCurrent(k) + CountedPrevious(k)
              /\ \A j \in 1..Len(drill.rows) :
                    InCurrentWindow(drill.rows[j]) \/ InPreviousWindow(drill.rows[j])

\* C24's case: with a period of 7 days the drill-down returned the row
\* counted in the current week and the row counted in the week before, and
\* not the row of the category dated after the week
C24_Witness ==
    /\ DrilledWithPrevious
    /\ config.comparison_period_days = 7
    /\ \E k \in TrendingOf(drill.category) :
          /\ CountedCurrent(k) = 1
          /\ CountedPrevious(k) = 1
    /\ Len(drill.rows) = 2
    /\ InCurrentWindow(drill.rows[1])
    /\ InPreviousWindow(drill.rows[2])
    /\ \E i \in 1..Len(result.consolidated) :
          /\ i \notin DrillWindowRows
          /\ result.consolidated[i].line_issue
          /\ CategoryOf(i) = drill.category

\* with a period of 14 days a row dated between the two windows was returned
C24_GapRowReturned ==
    /\ DrilledWithPrevious
    /\ config.comparison_period_days = 14
    /\ \E j \in 1..Len(drill.rows) :
          ~InCurrentWindow(drill.rows[j]) /\ ~InPreviousWindow(drill.rows[j])

\* with a period of 3 days a row returned once was counted in both windows
C24_RowCountedTwice ==
    /\ DrilledWithPrevious
    /\ config.comparison_period_days = 3
    /\ \E k \in TrendingOf(drill.category) :
          Len(drill.rows) < CountedCurrent(k) + CountedPrevious(k)

----------------------------------------------------------------------------

RECURSIVE Sum(_)
Sum(numbers) ==
    IF numbers = <<>> THEN 0 ELSE numbers[1] + Sum(Tail(numbers))

IssueCounts == [k \in 1..Len(summary.ranking) |-> summary.ranking[k].issue_count]
TotalRows == [k \in 1..Len(summary.ranking) |-> summary.ranking[k].total_rows]
CurrentCounts == [k \in 1..Len(summary.trending) |-> summary.trending[k].current_count]

\* C25: the two tables of one weekly summary account for the same issue
\* rows: the issue_count of the ranking rows and the current_count of the
\* trending rows have the same sum, and the total_rows of the ranking rows
\* add up to the number of consolidated rows dated inside the current week,
\* rows without a production_line or without a primary_issue included.
C25_TablesAccountForSameRows ==
    Reported =>
        /\ Sum(IssueCounts) = Sum(CurrentCounts)
        /\ Sum(TotalRows) = Cardinality(CurrentWeekRows)

\* C25's case: the week holds a row without a line issue and an issue row
\* that has neither a production_line nor a primary_issue, next to an issue
\* row of a named line and category
C25_Witness ==
    /\ Reported
    /\ \E i \in CurrentWeekRows :
          /\ isna(result.consolidated[i].production_line)
          /\ isna(result.consolidated[i].primary_issue)
          /\ result.consolidated[i].line_issue
    /\ \E i \in CurrentWeekRows : ~result.consolidated[i].line_issue
    /\ Sum(IssueCounts) = 2
    /\ Sum(TotalRows) = 3
    /\ Len(summary.ranking) = 2
    /\ Len(summary.trending) = 2

====
